---- MODULE Spec2Model ----
(***************************************************************************)
(* Model of the web page text extraction pipeline of scraper.py            *)
(* (class WebScraper): URL validation, HTTP fetch with retry, text         *)
(* extraction with the quality heuristics, and the rendering fallback of   *)
(* scrape_webpage_text.  Spec is one invocation of scrape_webpage_text;    *)
(* SpecUrl, SpecEnc and SpecText follow validate_url, the encoding cascade *)
(* of fetch_html and extract_text on their own, over larger input sets;    *)
(* SpecUi follows the page of main.py that calls the scraper; FairSpec is   *)
(* Spec with every possible step of the invocation eventually taken.       *)
(*                                                                         *)
(* Strings are run-length encoded over character classes: a line is a      *)
(* sequence of runs [k |-> class, n |-> count], a string is a sequence of  *)
(* lines (the pieces between "\n").  Every count the code takes over a     *)
(* string (len, isalnum, code point ranges) is a sum over the runs.        *)
(***************************************************************************)
EXTENDS Integers, Sequences, FiniteSets, TLC

(***************************************************************************)
(* Character classes.                                                      *)
(*   C   CJK ideograph U+4E00..U+9FFF (also alphanumeric for isalnum)      *)
(*   A   ASCII letter or digit                                             *)
(*   P   ASCII punctuation or symbol                                       *)
(*   S   ASCII white space other than "\n"                                 *)
(*   F   CJK / full-width punctuation U+3000..U+303F, U+FF00..U+FFEF       *)
(*   W   other BMP character above U+00FF that is not alphanumeric         *)
(*       (U+FFFD, symbols)                                                 *)
(*   Wn  U+26A0 (warning sign), Vs  U+FE0F (variation selector)            *)
(*   L   Latin-1 letter U+00C0..U+00FF (alphanumeric)                      *)
(*   X   Latin-1 character U+0080..U+00FF that is neither alphanumeric nor *)
(*       in the punctuation allow-list of the line filter                  *)
(*   Q   Latin-1 punctuation of the allow-list (U+00A1..U+00BF), not       *)
(*       alphanumeric                                                      *)
(*   E   character above U+FFFF                                            *)
(***************************************************************************)
AllClasses == {"C", "A", "P", "S", "F", "W", "Wn", "Vs", "L", "X", "Q", "E"}

\* '一' <= c <= '鿿'
Chinese == {"C"}

\* c.isalnum()
Alnum == {"C", "A", "L"}

\* c.isspace() for the characters of a line
Space == {"S"}

\* ord(c) > 127 and not (CJK or U+3000..U+303F or U+FF00..U+FFEF)
Weird == {"W", "Wn", "Vs", "L", "X", "Q", "E"}

\* 127 < ord(c) < 256 and c not in the allow-list, or ord(c) > 65535
LineWeird == {"L", "X", "E"}

\* ord(c) > 127 and not CJK
FilteredWeird == {"W", "Wn", "Vs", "L", "X", "Q", "E", "F"}

R(k, n) == [k |-> k, n |-> n]

\* the element of a set of one element: in {e : x \in {v}} the name x stands
\* for the value of v, computed once
The(S) == CHOOSE x \in S : TRUE

Last(s) == s[Len(s)]

RECURSIVE LineCount(_, _)
LineCount(line, K) ==
  The({IF l = <<>> THEN 0
       ELSE (IF Head(l).k \in K THEN Head(l).n ELSE 0) + LineCount(Tail(l), K) :
       l \in {line}})

LineLen(line) == LineCount(line, AllClasses)

RECURSIVE StrCount(_, _)
StrCount(s, K) ==
  The({IF t = <<>> THEN 0 ELSE LineCount(Head(t), K) + StrCount(Tail(t), K) :
       t \in {s}})

\* len(s): the characters of the lines plus one "\n" between two lines
StrLen(s) ==
  The({IF t = <<>> THEN 0 ELSE StrCount(t, AllClasses) + Len(t) - 1 : t \in {s}})

RECURSIVE Reverse(_)
Reverse(s) ==
  The({IF t = <<>> THEN <<>> ELSE Reverse(Tail(t)) \o <<Head(t)>> : t \in {s}})

RECURSIVE LStripLine(_)
LStripLine(line) ==
  The({IF l = <<>> THEN <<>>
       ELSE IF Head(l).k \in Space THEN LStripLine(Tail(l)) ELSE l :
       l \in {line}})

RStripLine(line) == Reverse(LStripLine(Reverse(line)))

\* line.strip()
StripLine(line) == RStripLine(LStripLine(line))

IsBlankLine(line) == LineCount(line, AllClasses \ Space) = 0

RECURSIVE DropBlankHead(_)
DropBlankHead(s) ==
  The({IF t = <<>> THEN <<>>
       ELSE IF IsBlankLine(Head(t)) THEN DropBlankHead(Tail(t)) ELSE t :
       t \in {s}})

\* s.strip(): white space, "\n" included, removed at both ends
Strip(s) ==
  LET a == DropBlankHead(s)
  IN  The({IF b = <<>> THEN <<>>
           ELSE IF Len(b) = 1 THEN <<StripLine(b[1])>>
           ELSE <<LStripLine(b[1])>> \o SubSeq(b, 2, Len(b) - 1)
                \o <<RStripLine(b[Len(b)])>> :
           b \in {Reverse(DropBlankHead(Reverse(a)))}})

RECURSIVE LinePrefix(_, _)
LinePrefix(line, n) ==
  The({IF m <= 0 \/ l = <<>> THEN <<>>
       ELSE IF Head(l).n <= m
            THEN <<Head(l)>> \o LinePrefix(Tail(l), m - Head(l).n)
            ELSE <<R(Head(l).k, m)>> :
       l \in {line}, m \in {n}})

\* s[:n]
RECURSIVE Prefix(_, _)
Prefix(s, n) ==
  The({IF m <= 0 \/ t = <<>> THEN <<>>
       ELSE IF LineLen(Head(t)) >= m \/ Tail(t) = <<>>
            THEN <<LinePrefix(Head(t), m)>>
            ELSE <<Head(t)>> \o (IF m - LineLen(Head(t)) - 1 <= 0 THEN << <<>> >>
                                 ELSE Prefix(Tail(t), m - LineLen(Head(t)) - 1)) :
       t \in {s}, m \in {n}})

\* The message extract_text returns in place of page text when it judges the
\* page to be rendered by script (82 characters, 43 of them CJK):
\*   line 1: U+26A0 U+FE0F, space, 7 CJK, "JavaScript", 4 CJK, "，", 8 CJK, "。"
\*   line 2: 3 CJK, "Selenium", 2 CJK, "（", 6 CJK, '"', 2 CJK, "JavaScript",
\*           2 CJK, '"', 2 CJK, "）", 7 CJK, "。"
WARN ==
  << << R("Wn", 1), R("Vs", 1), R("S", 1), R("C", 7), R("A", 10), R("C", 4),
        R("F", 1), R("C", 8), R("F", 1) >>,
     << R("C", 3), R("A", 8), R("C", 2), R("F", 1), R("C", 6), R("P", 1),
        R("C", 2), R("A", 10), R("C", 2), R("P", 1), R("C", 2), R("F", 1),
        R("C", 7), R("F", 1) >> >>

\* s.startswith("⚠️")
StartsWithWarn(s) ==
  /\ s # <<>>
  /\ Len(s[1]) >= 2
  /\ s[1][1] = R("Wn", 1)
  /\ s[1][2].k = "Vs"


(***************************************************************************)
(* Markup.  A parsed page is a sequence of top-level elements of the body  *)
(* (and the head), each with a tag, a set of classes, an id and a sequence *)
(* of children; a child is a text node ("#text"), a comment ("#comment")   *)
(* or an element holding one text node.  The empty sequence is the empty   *)
(* string, which parses to an empty tree.                                  *)
(***************************************************************************)
Node(tag, cls, id, kids) == [tag |-> tag, cls |-> cls, id |-> id, kids |-> kids]

Kid(tag, cls, id, str) == [tag |-> tag, cls |-> cls, id |-> id, str |-> str]

TextNode(str) == Kid("#text", {}, "", str)

\* decompose that reaches the top-level elements only
decompose_TopLevel(doc, tags) ==
  SelectSeq(doc, LAMBDA e : e.tag \notin tags)

\* for element in soup(tags): element.decompose()
decompose(doc, tags) ==
  LET keep(e) == e.tag \notin tags
      prune(n) == Node(n.tag, n.cls, n.id, SelectSeq(n.kids, keep))
  IN  The({[i \in 1..Len(kept) |-> prune(kept[i])] :
           kept \in {SelectSeq(doc, keep)}})

\* the raw strings below an element, in document order
Strings(el) ==
  IF "kids" \in DOMAIN el
  THEN [i \in 1..Len(el.kids) |-> el.kids[i].str]
  ELSE <<el.str>>

RECURSIVE StrippedStrings(_)
StrippedStrings(strs) ==
  The({IF t = <<>> THEN <<>>
       ELSE (IF Strip(Head(t)) = <<>> THEN <<>> ELSE <<Strip(Head(t))>>)
            \o StrippedStrings(Tail(t)) :
       t \in {strs}})

RECURSIVE Flatten(_)
Flatten(ss) ==
  The({IF t = <<>> THEN <<>> ELSE Head(t) \o Flatten(Tail(t)) : t \in {ss}})

RECURSIVE SumLen(_)
SumLen(ss) ==
  The({IF t = <<>> THEN 0 ELSE StrLen(Head(t)) + SumLen(Tail(t)) : t \in {ss}})

\* el.get_text(separator='\n', strip=True)
get_text(strs) == Flatten(StrippedStrings(strs))

\* len(el.get_text(strip=True)): the stripped strings joined without separator
get_text_len(strs) == SumLen(StrippedStrings(strs))

\* the elements of the tree in document order
RECURSIVE Elements(_)
Elements(doc) ==
  IF doc = <<>> THEN <<>>
  ELSE <<Head(doc)>>
       \o SelectSeq(Head(doc).kids, LAMBDA k : k.tag \notin {"#text", "#comment"})
       \o Elements(Tail(doc))

content_selectors ==
  << [by |-> "name", v |-> "article"],
     [by |-> "name", v |-> "main"],
     [by |-> "class", v |-> "content"],
     [by |-> "class", v |-> "post-content"],
     [by |-> "class", v |-> "entry-content"],
     [by |-> "id", v |-> "content"],
     [by |-> "id", v |-> "main"] >>

Matches(el, sel) ==
  CASE sel.by = "name" -> el.tag = sel.v
    [] sel.by = "class" -> sel.v \in el.cls
    [] sel.by = "id" -> el.id = sel.v

\* find taking the first matching element of more than 100 characters
find_LongMatch(doc, sel) ==
  LET m == SelectSeq(Elements(doc),
                     LAMBDA e : Matches(e, sel)
                                /\ get_text_len(Strings(e)) > 100)
  IN  IF m = <<>> THEN <<>> ELSE <<m[1]>>

\* soup.find(**selector): the first matching element, <<>> when there is none
find(doc, sel) ==
  LET m == SelectSeq(Elements(doc), LAMBDA e : Matches(e, sel))
  IN  IF m = <<>> THEN <<>> ELSE <<m[1]>>

\* the loop over content_selectors from position i: the first selector whose
\* first match has more than 100 characters of text
RECURSIVE main_content(_, _)
main_content(doc, i) ==
  IF i > Len(content_selectors) THEN <<>>
  ELSE LET found == find(doc, content_selectors[i])
       IN  IF found # <<>> /\ get_text_len(Strings(found[1])) > 100
           THEN found
           ELSE main_content(doc, i + 1)

\* soup.get_text(separator='\n', strip=True) on the whole tree
soup_text(doc) ==
  get_text(Flatten([i \in 1..Len(doc) |-> Strings(doc[i])]))

RemovedTags ==
  {"script", "style", "meta", "link", "noscript", "iframe", "embed", "svg",
   "canvas", "head"}

\* the tree after the removal passes of extract_text
cleaned(doc) ==
  LET d1 == decompose(doc, RemovedTags)
      d2 == decompose(d1, {"#comment"})
      d3 == decompose(d2, {"script"})
  IN  decompose(d3, {"noscript", "template"})

\* the text extract_text takes its metrics over
page_text(doc) ==
  The({The({IF mc # <<>> THEN get_text(Strings(mc[1])) ELSE soup_text(soup) :
            mc \in {main_content(soup, 1)}}) :
       soup \in {cleaned(doc)}})

\* keep_line satisfied with 2 CJK characters
keep_line_TwoChinese(line) ==
  LET line_chinese == LineCount(line, Chinese)
      line_alnum == LineCount(line, Alnum)
      line_total == LineLen(line)
      line_weird == LineCount(line, LineWeird)
  IN  /\ line_total >= 2
      /\ \/ line_chinese >= 2
         \/ /\ 10 * (line_chinese + line_alnum) > 8 * line_total
            /\ 10 * line_weird < line_total

\* the line filter of extract_text: a stripped line of at least 2 characters
\* is kept when it has 3 CJK characters, or more than 80% valid characters
\* and less than 10% weird characters
keep_line(line) ==
  LET line_chinese == LineCount(line, Chinese)
      line_alnum == LineCount(line, Alnum)
      line_total == LineLen(line)
      line_weird == LineCount(line, LineWeird)
  IN  /\ line_total >= 2
      /\ \/ line_chinese >= 3
         \/ /\ 10 * (line_chinese + line_alnum) > 8 * line_total
            /\ 10 * line_weird < line_total

\* filtered_lines that passes over the first line
filtered_lines_SkipsFirst(text) ==
  LET stripped == [i \in 1..Len(text) |-> StripLine(text[i])]
  IN  SelectSeq(Tail(stripped), keep_line)

filtered_lines(text) ==
  LET stripped == [i \in 1..Len(text) |-> StripLine(text[i])]
  IN  SelectSeq(stripped, keep_line)

\* salvage without the check of the filtered text
salvage_NoRecheck(text) ==
  LET filtered_text == filtered_lines(text)
      filtered_chinese == StrCount(filtered_text, Chinese)
  IN  IF StrLen(Strip(filtered_text)) < 100
      THEN IF Strip(filtered_text) # <<>> /\ filtered_chinese >= 5
           THEN Strip(filtered_text)
           ELSE WARN
      ELSE filtered_text

\* the salvage branch of extract_text
salvage(text) ==
  LET filtered_text == filtered_lines(text)
      filtered_chinese == StrCount(filtered_text, Chinese)
      filtered_weird == StrCount(filtered_text, FilteredWeird)
      filtered_total == StrLen(filtered_text)
  IN  IF Strip(filtered_text) # <<>> /\ filtered_total > 0
         /\ (filtered_chinese < 10 \/ 10 * filtered_weird > 3 * filtered_total)
      THEN WARN
      ELSE IF StrLen(Strip(filtered_text)) < 100
           THEN IF Strip(filtered_text) # <<>> /\ filtered_chinese >= 5
                THEN Strip(filtered_text)
                ELSE WARN
           ELSE filtered_text

\* needs_salvage with either sign of noise taken for gibberish
needs_salvage_EitherSign(text) ==
  LET chinese_chars == StrCount(text, Chinese)
      alnum_chars == StrCount(text, Alnum)
      weird_chars == StrCount(text, Weird)
      total_chars == StrLen(text)
      is_gibberish == \/ 10 * weird_chars > 2 * total_chars
                      \/ 10 * (chinese_chars + alnum_chars) < 5 * total_chars
  IN  /\ total_chars > 0
      /\ is_gibberish \/ (total_chars < 100 /\ chinese_chars < 5)

\* is_gibberish or (total_chars < 100 and chinese_chars < 5)
needs_salvage(text) ==
  LET chinese_chars == StrCount(text, Chinese)
      alnum_chars == StrCount(text, Alnum)
      weird_chars == StrCount(text, Weird)
      total_chars == StrLen(text)
      is_gibberish == /\ 10 * weird_chars > 2 * total_chars
                      /\ 10 * (chinese_chars + alnum_chars) < 5 * total_chars
  IN  /\ total_chars > 0
      /\ is_gibberish \/ (total_chars < 100 /\ chinese_chars < 5)

\* the counts extract_text takes over the text
metrics(text) ==
  [chinese_chars |-> StrCount(text, Chinese),
   alnum_chars |-> StrCount(text, Alnum),
   weird_chars |-> StrCount(text, Weird),
   total_chars |-> StrLen(text)]

extract_text(html_text) ==
  The({IF needs_salvage(text) THEN salvage(text) ELSE text :
       text \in {page_text(html_text)}})


(***************************************************************************)
(* URLs.  A URL is a sequence of tokens: a word made of scheme characters  *)
(* ("http", "https", "ftp", "HTTP", "a") or a single character.            *)
(***************************************************************************)
UrlTokens == {"http", "https", "ftp", "HTTP", "a", ":", "/", "[", " "}

\* tokens made of scheme characters that start with an ASCII letter
WordTokens == {"http", "https", "ftp", "HTTP", "a"}

\* str.lower() on a token
LowerTok(tok) == IF tok = "HTTP" THEN "http" ELSE tok

RECURSIVE LStripUrl(_)
LStripUrl(u) ==
  IF u = <<>> THEN <<>>
  ELSE IF Head(u) = " " THEN LStripUrl(Tail(u)) ELSE u

\* u.find(c, start): the first position >= start holding c, 0 when absent
RECURSIVE Find(_, _, _)
Find(u, c, start) ==
  IF start > Len(u) THEN 0
  ELSE IF u[start] = c THEN start ELSE Find(u, c, start + 1)

\* urlsplit of urllib.parse: [raises, scheme, netloc, rest]
urlparse(url) ==
  LET u0 == LStripUrl(url)
      i == Find(u0, ":", 1)
      hasScheme == /\ i > 1
                   /\ u0[1] \in WordTokens
                   /\ \A j \in 1..(i - 1) : u0[j] \in WordTokens
      scheme == IF hasScheme THEN [j \in 1..(i - 1) |-> LowerTok(u0[j])] ELSE <<>>
      u1 == IF hasScheme THEN SubSeq(u0, i + 1, Len(u0)) ELSE u0
      hasNetloc == Len(u1) >= 2 /\ u1[1] = "/" /\ u1[2] = "/"
      delim == IF Find(u1, "/", 3) = 0 THEN Len(u1) + 1 ELSE Find(u1, "/", 3)
      netloc == IF hasNetloc THEN SubSeq(u1, 3, delim - 1) ELSE <<>>
      chars == {netloc[j] : j \in 1..Len(netloc)}
  IN  [raises |-> \/ ("[" \in chars /\ "]" \notin chars)
                  \/ ("]" \in chars /\ "[" \notin chars),
       scheme |-> scheme,
       netloc |-> netloc]

\* validate_url without the check of the network location
validate_url_AnyNetloc(url) ==
  LET result == urlparse(url)
  IN  IF result.raises THEN FALSE
      ELSE result.scheme \in {<<"http">>, <<"https">>}

validate_url(url) ==
  LET result == urlparse(url)
  IN  IF result.raises THEN FALSE
      ELSE result.scheme \in {<<"http">>, <<"https">>} /\ result.netloc # <<>>


(***************************************************************************)
(* Response bodies and encodings.  The bytes of a body are given by what   *)
(* each codec makes of them: whether a strict decode succeeds, how many of *)
(* the first 500 decoded characters are CJK, alphanumeric or white space,  *)
(* and the page the decoded text (errors replaced) parses to.  meta is the *)
(* charset the scan of the first 5000 bytes finds, NoneEnc when it finds   *)
(* none.                                                                   *)
(***************************************************************************)
NoneEnc == "None"

Codecs == {"utf-8", "gbk", "gb2312", "gb18030", "latin-1", "cp1252", "ascii"}

\* str.lower() on an encoding name
lower(name) ==
  CASE name = "ISO-8859-1" -> "iso-8859-1"
    [] name = "Windows-1252" -> "windows-1252"
    [] name = "GB2312" -> "gb2312"
    [] name = "UTF-8" -> "utf-8"
    [] name = "EUC-TW" -> "euc-tw"
    [] OTHER -> name

\* the codec Python looks up for an encoding name, "unknown" for LookupError
codec(name) ==
  CASE lower(name) = "utf-8" -> "utf-8"
    [] lower(name) = "gbk" -> "gbk"
    [] lower(name) = "gb2312" -> "gb2312"
    [] lower(name) = "gb18030" -> "gb18030"
    [] lower(name) \in {"iso-8859-1", "latin1"} -> "latin-1"
    [] lower(name) \in {"windows-1252", "cp1252"} -> "cp1252"
    [] lower(name) = "ascii" -> "ascii"
    [] OTHER -> "unknown"

\* response.content.decode(name) succeeds
decodes(content, name) ==
  codec(name) # "unknown" /\ content.dec[codec(name)].ok

\* the charset adopted from the declaration inside the document (stage 2)
\* html_charset_stage adopting the declared charset without the decode
html_charset_stage_Unchecked(content, enc) ==
  IF content.meta # NoneEnc THEN lower(content.meta) ELSE enc

html_charset_stage(content, enc) ==
  IF content.meta # NoneEnc
     /\ decodes(content, lower(content.meta))
     /\ ~content.empty
  THEN lower(content.meta)
  ELSE enc

\* try_encodings accepting a candidate as soon as it decodes
RECURSIVE try_encodings_AnyDecode(_, _, _)
try_encodings_AnyDecode(content, enc, i) ==
  LET cands == <<"utf-8", "gbk", "gb2312", "gb18030">>
  IN  IF i > Len(cands) THEN enc
      ELSE IF decodes(content, cands[i])
           THEN cands[i]
           ELSE try_encodings_AnyDecode(content, enc, i + 1)

\* the loop over the candidate encodings from position i (stage 3)
RECURSIVE try_encodings(_, _, _)
try_encodings(content, enc, i) ==
  LET cands == <<"utf-8", "gbk", "gb2312", "gb18030">>
  IN  IF i > Len(cands) THEN enc
      ELSE IF decodes(content, cands[i]) /\ content.dec[codec(cands[i])].plausible > 50
           THEN cands[i]
           ELSE try_encodings(content, enc, i + 1)

\* the value of response.encoding when fetch_html reads response.text
resolve_encoding(response) ==
  LET app == response.apparent_encoding
      e1 == IF app # NoneEnc THEN app ELSE response.encoding
      e2 == IF e1 = NoneEnc \/ lower(e1) \in {"iso-8859-1", "latin1"}
            THEN html_charset_stage(response.content, e1) ELSE e1
      e3 == IF e2 = NoneEnc \/ lower(e2) \in {"iso-8859-1", "latin1", "cp1252"}
            THEN try_encodings(response.content, e2, 1) ELSE e2
  IN  IF e3 = NoneEnc \/ lower(e3) \in {"iso-8859-1", "latin1"}
      THEN (IF app # NoneEnc THEN app ELSE "utf-8")
      ELSE e3

\* response.text: the body decoded under the encoding with errors replaced,
\* under UTF-8 when the name is unknown to Python; "" for an empty body
response_text(content, enc) ==
  IF content.empty THEN <<>>
  ELSE IF codec(enc) = "unknown" THEN content.dec["utf-8"].doc
  ELSE content.dec[codec(enc)].doc

\* what a decoder makes of the runs of a line: each run of a class in the
\* domain of sub becomes the runs sub[class] scaled by the length of the run
RECURSIVE MapLine(_, _)
MapLine(line, sub) ==
  IF line = <<>> THEN <<>>
  ELSE LET r == Head(line)
       IN  (IF r.k \in DOMAIN sub
            THEN [i \in 1..Len(sub[r.k]) |-> R(sub[r.k][i].k, sub[r.k][i].n * r.n)]
            ELSE <<r>>) \o MapLine(Tail(line), sub)

MapStr(str, sub) == [i \in 1..Len(str) |-> MapLine(str[i], sub)]

MapDoc(doc, sub) ==
  [i \in 1..Len(doc) |->
     Node(doc[i].tag, doc[i].cls, doc[i].id,
          [j \in 1..Len(doc[i].kids) |->
             Kid(doc[i].kids[j].tag, doc[i].kids[j].cls, doc[i].kids[j].id,
                 MapStr(doc[i].kids[j].str, sub))])]

\* a 3-byte UTF-8 sequence read as Latin-1 / cp1252: a letter and two
\* characters of the upper half
Utf8AsLatin ==
  [c \in {"C", "F"} |-> IF c = "C" THEN <<R("L", 1), R("X", 1), R("Q", 1)>>
                        ELSE <<R("L", 1), R("Q", 1), R("X", 1)>>]

\* a 2-byte GBK sequence read as Latin-1 / cp1252
GbkAsLatin == [c \in {"C", "F"} |-> <<R("L", 1), R("X", 1)>>]

\* undecodable bytes replaced by U+FFFD, one for each byte
Replaced(bytes) == [c \in {"C", "F"} |-> <<R("W", bytes)>>]

RECURSIVE DocCount(_, _)
DocCount(doc, K) ==
  IF doc = <<>> THEN 0
  ELSE StrCount(Flatten(Strings(Head(doc))), K) + DocCount(Tail(doc), K)

Min(a, b) == IF a < b THEN a ELSE b

\* the characters of the first 500 that are CJK, alphanumeric or white space:
\* those of the markup plus those of the text
plausible(markup, doc) == Min(500, markup + DocCount(doc, Alnum \cup Space))

IsAscii(doc) == DocCount(doc, AllClasses \ {"A", "P", "S"}) = 0

Dec(ok, markup, doc) == [ok |-> ok, plausible |-> plausible(markup, doc), doc |-> doc]

\* the bytes of a page written in UTF-8, with markup plausible characters of
\* markup in the first 500
Utf8Content(doc, markup, meta) ==
  [meta |-> meta, empty |-> FALSE,
   dec |-> [c \in Codecs |->
     CASE c = "utf-8" -> Dec(TRUE, markup, doc)
       [] c \in {"latin-1", "cp1252"} -> Dec(TRUE, markup, MapDoc(doc, Utf8AsLatin))
       [] c = "ascii" -> Dec(IsAscii(doc), markup, MapDoc(doc, Replaced(3)))
       [] OTHER -> IF IsAscii(doc) THEN Dec(TRUE, markup, doc)
                   ELSE Dec(FALSE, markup, MapDoc(doc, Replaced(3)))]]

\* the bytes of a page written in GBK
GbkContent(doc, markup, meta) ==
  [meta |-> meta, empty |-> FALSE,
   dec |-> [c \in Codecs |->
     CASE c \in {"gbk", "gb2312", "gb18030"} -> Dec(TRUE, markup, doc)
       [] c \in {"latin-1", "cp1252"} -> Dec(TRUE, markup, MapDoc(doc, GbkAsLatin))
       [] OTHER -> Dec(IsAscii(doc), markup, MapDoc(doc, Replaced(2)))]]

\* the bytes of a page written in GB18030 with characters outside GBK
Gb18030Content(doc, markup, meta) ==
  [meta |-> meta, empty |-> FALSE,
   dec |-> [c \in Codecs |->
     CASE c = "gb18030" -> Dec(TRUE, markup, doc)
       [] c \in {"latin-1", "cp1252"} -> Dec(TRUE, markup, MapDoc(doc, GbkAsLatin))
       [] OTHER -> Dec(IsAscii(doc), markup, MapDoc(doc, Replaced(2)))]]

\* the empty body b''
EmptyContent ==
  [meta |-> NoneEnc, empty |-> TRUE,
   dec |-> [c \in Codecs |-> [ok |-> TRUE, plausible |-> 0, doc |-> <<>>]]]


(***************************************************************************)
(* Inputs of the pipeline model: URLs, pages and HTTP responses.           *)
(***************************************************************************)
\* http://a   ftp://a   http://
SampleUrls ==
  { <<"http", ":", "/", "/", "a">>,
    <<"ftp", ":", "/", "/", "a">>,
    <<"http", ":", "/", "/">> }

Txt(runs) == TextNode(<<runs>>)

Div(runs) == Node("div", {}, "", <<Txt(runs)>>)

Article(runs) == Node("article", {}, "", <<Txt(runs)>>)

\* <script>var x=1</script>
Script == Node("script", {}, "", <<Txt(<<R("A", 3), R("S", 1), R("A", 1), R("P", 1), R("A", 1)>>)>>)

\* an article of 120 CJK characters followed by a script
PageArticle == <<Article(<<R("C", 120)>>), Script>>

\* 300, 150 characters of ASCII prose
PageEnglish300 == <<Div(<<R("A", 300)>>)>>

PageEnglish150 == <<Div(<<R("A", 150)>>)>>

\* 80 characters of JSON-like punctuation, no CJK
PageJson80 == <<Div(<<R("P", 40), R("A", 20), R("P", 20)>>)>>

\* 20 characters of ASCII text
PageShort20 == <<Div(<<R("A", 20)>>)>>

\* 30, 60 CJK characters
PageCjk30 == <<Div(<<R("C", 30)>>)>>

PageCjk60 == <<Div(<<R("C", 60)>>)>>

\* markup without any text outside scripts
PageScriptOnly == <<Script>>

\* 200 accented Latin-1 letters
PageLatin200 == <<Div(<<R("L", 200)>>)>>

\* 1000 accented Latin-1 letters followed by 100 CJK characters
PageLatinLong == <<Div(<<R("L", 1000), R("C", 100)>>)>>

\* an article of 2000 CJK characters
PageArticle2000 == <<Article(<<R("C", 2000)>>)>>

Response(status, encoding, apparent_encoding, content) ==
  [status |-> status, encoding |-> encoding,
   apparent_encoding |-> apparent_encoding, content |-> content]

\* responses that raise_for_status lets through (status below 400)
OkResponses ==
  { Response(200, "utf-8", "utf-8", Utf8Content(PageArticle, 40, "utf-8")),
    Response(200, "ISO-8859-1", "ascii", Utf8Content(PageEnglish300, 40, NoneEnc)),
    Response(200, "ISO-8859-1", "ascii", Utf8Content(PageEnglish150, 40, NoneEnc)),
    Response(200, "utf-8", "ascii", Utf8Content(PageJson80, 40, NoneEnc)),
    Response(200, "utf-8", "ascii", Utf8Content(PageShort20, 40, NoneEnc)),
    Response(200, "utf-8", "utf-8", Utf8Content(PageCjk30, 40, NoneEnc)),
    Response(200, "utf-8", "utf-8", Utf8Content(PageCjk60, 40, NoneEnc)),
    Response(200, NoneEnc, "ascii", Utf8Content(PageScriptOnly, 40, NoneEnc)),
    Response(200, NoneEnc, "utf-8", Utf8Content(PageLatin200, 40, NoneEnc)),
    Response(200, "utf-8", "utf-8", Utf8Content(PageLatinLong, 40, NoneEnc)),
    Response(200, "ISO-8859-1", NoneEnc, GbkContent(PageArticle, 40, NoneEnc)),
    Response(200, "ISO-8859-1", "Windows-1252", Utf8Content(PageCjk60, 40, NoneEnc)),
    Response(200, NoneEnc, NoneEnc, EmptyContent),
    Response(300, NoneEnc, "ascii", Utf8Content(PageScriptOnly, 40, NoneEnc)) }

\* statuses for which raise_for_status raises HTTPError (400 <= status < 600)
ErrorStatuses == {400, 403, 404, 500, 503}

\* the pages the browser can hand back as page_source
RenderedPages == {PageArticle2000, PageJson80, PageCjk30, PageScriptOnly}


(***************************************************************************)
(* The pipeline: one invocation of WebScraper.scrape_webpage_text.         *)
(***************************************************************************)
VARIABLES
  url,                 \* argument url
  use_selenium,        \* argument use_selenium: "None", "True" or "False"
  SELENIUM_AVAILABLE,  \* module flag set when selenium can be imported
  scraper,             \* the fields of the WebScraper instance
  pc,                  \* position in the invocation
  caller,              \* the call site fetch_html or the renderer returns to
  attempt,             \* loop variable of fetch_html
  attempts,            \* outcomes of the GETs of the current fetch_html call
  log,                 \* network events of the invocation, in order
                       \* (SpecEnc: response.encoding after each stage)
  response,            \* the last response that passed raise_for_status
  html_text,           \* local html_text of scrape_webpage_text
  text_sample,         \* local sample_stripped of scrape_webpage_text
  decision,            \* the branch the quality check took
  driver,              \* browser session: "none", "started" or "quit"
  page_source,         \* the markup the renderer returned, None before
  outcome,             \* result of the invocation
  calls,               \* the extract_text calls followed on their own
  session_state        \* st.session_state of the page of main.py

vars ==
  <<url, use_selenium, SELENIUM_AVAILABLE, scraper, pc, caller, attempt,
    attempts, log, response, html_text, text_sample, decision, driver,
    page_source, outcome, calls, session_state>>

None == [t |-> "None"]

\* init_session_state of main.py: the three keys of a new session
NewSession == [extracted_text |-> <<>>, edited_text |-> <<>>, current_url |-> <<>>]

Str(v) == [t |-> "str", v |-> v]

Running == [kind |-> "running"]

Text(t) == [kind |-> "text", text |-> t]

Error(e) == [kind |-> "error", err |-> e]

\* WebScraper.__init__
WebScraper ==
  [headers |-> {"User-Agent", "Accept", "Accept-Language", "Accept-Encoding",
                "Connection", "Upgrade-Insecure-Requests"},
   timeout |-> 30, max_retries |-> 3, use_selenium |-> FALSE]

Init ==
  /\ url \in SampleUrls
  /\ use_selenium \in {"None", "True", "False"}
  /\ SELENIUM_AVAILABLE \in BOOLEAN
  /\ scraper = WebScraper
  /\ pc = "scrape"
  /\ caller = "none"
  /\ attempt = 0
  /\ attempts = <<>>
  /\ log = <<>>
  /\ response = None
  /\ html_text = None
  /\ text_sample = None
  /\ decision = "none"
  /\ driver = "none"
  /\ page_source = None
  /\ outcome = Running
  /\ calls = <<>>
  /\ session_state = NewSession

\* the effective use_selenium after the default is applied
UseSelenium ==
  IF use_selenium = "None" THEN scraper.use_selenium ELSE use_selenium = "True"

\* raise Exception(e) out of scrape_webpage_text
Raise(e) ==
  /\ outcome' = Error(e)
  /\ pc' = "done"

\* Scrape fetching statically first whatever the caller asked for
Scrape_StaticFirst ==
  /\ pc = "scrape"
  /\ pc' = "fetch_html"
  /\ caller' = "static"
  /\ UNCHANGED <<url, session_state, calls, use_selenium, SELENIUM_AVAILABLE, scraper, attempt,
                 attempts, log, response, html_text, text_sample, decision,
                 driver, page_source, outcome>>

\* entry of scrape_webpage_text: choice between renderer and fetch_html
Scrape ==
  /\ pc = "scrape"
  /\ IF UseSelenium /\ SELENIUM_AVAILABLE
     THEN pc' = "selenium" /\ caller' = "direct"
     ELSE IF UseSelenium
          THEN pc' = "fetch_html" /\ caller' = "fallback"
          ELSE pc' = "fetch_html" /\ caller' = "static"
  /\ UNCHANGED <<url, session_state, calls, use_selenium, SELENIUM_AVAILABLE, scraper, attempt,
                 attempts, log, response, html_text, text_sample, decision,
                 driver, page_source, outcome>>

\* return h from fetch_html to its call site
FetchReturns(h) ==
  /\ html_text' = h
  /\ pc' = IF caller = "static" THEN "check" ELSE "extract"

\* entry of fetch_html: the URL check, then the retry loop starts
FetchHtml ==
  /\ pc = "fetch_html"
  /\ attempt' = 0
  /\ attempts' = <<>>
  /\ IF ~validate_url(url)
     THEN FetchReturns(None)
     ELSE pc' = "get" /\ UNCHANGED html_text
  /\ UNCHANGED <<url, session_state, calls, use_selenium, SELENIUM_AVAILABLE, scraper, caller, log,
                 response, text_sample, decision, driver, page_source, outcome>>

\* one GET of the current call and its outcome
Attempt(kind, status) == [kind |-> kind, status |-> status]

\* Transient giving up one iteration early
Transient_GivesUpEarly(kind, err) ==
  /\ attempt < scraper.max_retries
  /\ attempts' = Append(attempts, [kind |-> kind, status |-> 0])
  /\ IF attempt < scraper.max_retries - 2
     THEN /\ log' = log \o <<"GET:" \o kind, "sleep(2)">>
          /\ attempt' = attempt + 1
          /\ UNCHANGED <<pc, outcome>>
     ELSE /\ log' = Append(log, "GET:" \o kind)
          /\ Raise(err)
          /\ UNCHANGED attempt
  /\ UNCHANGED <<url, session_state, calls, use_selenium, SELENIUM_AVAILABLE, scraper, caller,
                 response, html_text, text_sample, decision, driver,
                 page_source>>

\* an iteration that ends in a timeout or a connection error: sleep and go
\* round again unless it was the last one
Transient(kind, err) ==
  /\ attempt < scraper.max_retries
  /\ attempts' = Append(attempts, Attempt(kind, 0))
  /\ IF attempt < scraper.max_retries - 1
     THEN /\ log' = log \o <<"GET:" \o kind, "sleep(2)">>
          /\ attempt' = attempt + 1
          /\ UNCHANGED <<pc, outcome>>
     ELSE /\ log' = Append(log, "GET:" \o kind)
          /\ Raise(err)
          /\ UNCHANGED attempt
  /\ UNCHANGED <<url, session_state, calls, use_selenium, SELENIUM_AVAILABLE, scraper, caller,
                 response, html_text, text_sample, decision, driver,
                 page_source>>

\* except requests.exceptions.Timeout
GetTimeout ==
  /\ pc = "get"
  /\ Transient("timeout", "timeout")

\* except requests.exceptions.ConnectionError
GetConnectionError ==
  /\ pc = "get"
  /\ Transient("connection", "connection")

\* HttpError with the message of status 500 for every status from 500 on
HttpError_ServerErrors(status_code) ==
  CASE status_code = 403 -> "http_403_denied"
    [] status_code = 404 -> "http_404_not_found"
    [] status_code >= 500 -> "http_500_server"
    [] OTHER -> "http_" \o ToString(status_code)

\* the message raised for an HTTP error status; the message for a status
\* other than 403, 404 and 500 holds the status code
HttpError(status_code) ==
  CASE status_code = 403 -> "http_403_denied"
    [] status_code = 404 -> "http_404_not_found"
    [] status_code = 500 -> "http_500_server"
    [] OTHER -> "http_" \o ToString(status_code)

\* GetHTTPError handled like a timeout: sleep and try again
GetHTTPError_Retries ==
  /\ pc = "get"
  /\ attempt < scraper.max_retries
  /\ \E status \in ErrorStatuses :
       /\ attempts' = Append(attempts, [kind |-> "http", status |-> status])
       /\ IF attempt < scraper.max_retries - 1
          THEN /\ log' = log \o <<"GET:http", "sleep(2)">>
               /\ attempt' = attempt + 1
               /\ UNCHANGED <<pc, outcome>>
          ELSE /\ log' = Append(log, "GET:http")
               /\ Raise(HttpError(status))
               /\ UNCHANGED attempt
  /\ UNCHANGED <<url, session_state, calls, use_selenium, SELENIUM_AVAILABLE, scraper, caller,
                 response, html_text, text_sample, decision, driver,
                 page_source>>

\* raise_for_status raises HTTPError: the fetch fails at once
GetHTTPError ==
  /\ pc = "get"
  /\ attempt < scraper.max_retries
  /\ \E status \in ErrorStatuses :
       /\ attempts' = Append(attempts, Attempt("http", status))
       /\ log' = Append(log, "GET:http")
       /\ Raise(HttpError(status))
  /\ UNCHANGED <<url, session_state, calls, use_selenium, SELENIUM_AVAILABLE, scraper, caller,
                 attempt, response, html_text, text_sample, decision, driver,
                 page_source>>

\* GetRequestException with a backoff before it raises
GetRequestException_BacksOff ==
  /\ pc = "get"
  /\ attempt < scraper.max_retries
  /\ attempts' = Append(attempts, Attempt("other", 0))
  /\ log' = log \o <<"GET:other", "sleep(2)">>
  /\ Raise("request_failed")
  /\ UNCHANGED <<url, session_state, calls, use_selenium, SELENIUM_AVAILABLE, scraper, caller,
                 attempt, response, html_text, text_sample, decision, driver,
                 page_source>>

\* except requests.exceptions.RequestException (too many redirects, ...)
GetRequestException ==
  /\ pc = "get"
  /\ attempt < scraper.max_retries
  /\ attempts' = Append(attempts, Attempt("other", 0))
  /\ log' = Append(log, "GET:other")
  /\ Raise("request_failed")
  /\ UNCHANGED <<url, session_state, calls, use_selenium, SELENIUM_AVAILABLE, scraper, caller,
                 attempt, response, html_text, text_sample, decision, driver,
                 page_source>>

\* the GET passes raise_for_status: resolve the encoding, return the text
GetSuccess ==
  /\ pc = "get"
  /\ attempt < scraper.max_retries
  /\ \E resp \in OkResponses :
       /\ response' = resp
       /\ FetchReturns(Str(response_text(resp.content, resolve_encoding(resp))))
       /\ attempts' = Append(attempts, Attempt("ok", resp.status))
  /\ log' = Append(log, "GET:ok")
  /\ UNCHANGED <<url, session_state, calls, use_selenium, SELENIUM_AVAILABLE, scraper, caller,
                 attempt, text_sample, decision, driver, page_source, outcome>>

\* suspicious with the validity threshold at 200 characters
suspicious_Valid200(sample_stripped) ==
  LET is_valid == StrLen(sample_stripped) >= 200 /\ ~StartsWithWarn(sample_stripped)
      chinese_in_sample == StrCount(Prefix(sample_stripped, 1000), Chinese)
      weird_in_sample == StrCount(Prefix(sample_stripped, 1000), Weird)
      sample_total == Min(1000, StrLen(sample_stripped))
      is_gibberish == /\ sample_total > 0
                      /\ 10 * weird_in_sample > 3 * sample_total
                      /\ chinese_in_sample < 20
  IN  \/ ~is_valid
      \/ (StrLen(sample_stripped) < 200 /\ chinese_in_sample < 10)
      \/ is_gibberish

\* not is_valid or (len < 200 and chinese < 10) or is_gibberish
suspicious(sample_stripped) ==
  LET is_valid == StrLen(sample_stripped) >= 100 /\ ~StartsWithWarn(sample_stripped)
      chinese_in_sample == StrCount(Prefix(sample_stripped, 1000), Chinese)
      weird_in_sample == StrCount(Prefix(sample_stripped, 1000), Weird)
      sample_total == Min(1000, StrLen(sample_stripped))
      is_gibberish == /\ sample_total > 0
                      /\ 10 * weird_in_sample > 3 * sample_total
                      /\ chinese_in_sample < 20
  IN  \/ ~is_valid
      \/ (StrLen(sample_stripped) < 200 /\ chinese_in_sample < 10)
      \/ is_gibberish

\* CheckSample that stores the need of the renderer on the scraper
CheckSample_RemembersRenderer ==
  /\ pc = "check"
  /\ IF html_text = None \/ html_text.v = <<>>
     THEN /\ pc' = "extract"
          /\ decision' = "skipped"
          /\ UNCHANGED <<caller, text_sample, outcome>>
     ELSE \E sample_stripped \in {Strip(extract_text(html_text.v))} :
              /\ text_sample' = Str(sample_stripped)
              /\ IF ~suspicious(sample_stripped)
                 THEN /\ pc' = "extract"
                      /\ decision' = "accept"
                      /\ UNCHANGED <<caller, outcome>>
                 ELSE IF SELENIUM_AVAILABLE
                 THEN /\ pc' = "selenium"
                      /\ caller' = "escalate"
                      /\ decision' = "escalate"
                      /\ UNCHANGED outcome
                 ELSE IF StrLen(sample_stripped) < 50
                 THEN /\ Raise("too_little_no_selenium")
                      /\ decision' = "fail"
                      /\ UNCHANGED caller
                 ELSE /\ pc' = "extract"
                      /\ decision' = "keep"
                      /\ UNCHANGED <<caller, outcome>>
  /\ scraper' = IF decision' = "escalate"
                THEN [scraper EXCEPT !.use_selenium = TRUE] ELSE scraper
  /\ UNCHANGED <<url, session_state, calls, use_selenium, SELENIUM_AVAILABLE, attempt,
                 attempts, log, response, html_text, driver, page_source>>

\* the check of the static result after fetch_html returned
CheckSample ==
  /\ pc = "check"
  /\ IF html_text = None \/ html_text.v = <<>>
     THEN /\ pc' = "extract"
          /\ decision' = "skipped"
          /\ UNCHANGED <<caller, text_sample, outcome>>
     ELSE \E sample_stripped \in {Strip(extract_text(html_text.v))} :
              /\ text_sample' = Str(sample_stripped)
              /\ IF ~suspicious(sample_stripped)
                 THEN /\ pc' = "extract"
                      /\ decision' = "accept"
                      /\ UNCHANGED <<caller, outcome>>
                 ELSE IF SELENIUM_AVAILABLE
                 THEN /\ pc' = "selenium"
                      /\ caller' = "escalate"
                      /\ decision' = "escalate"
                      /\ UNCHANGED outcome
                 ELSE IF StrLen(sample_stripped) < 50
                 THEN /\ Raise("too_little_no_selenium")
                      /\ decision' = "fail"
                      /\ UNCHANGED caller
                 ELSE /\ pc' = "extract"
                      /\ decision' = "keep"
                      /\ UNCHANGED <<caller, outcome>>
  /\ UNCHANGED <<url, session_state, calls, use_selenium, SELENIUM_AVAILABLE, scraper, attempt,
                 attempts, log, response, html_text, driver, page_source>>

\* SeleniumRaises that starts the renderer a second time after a failure
SeleniumRaises_TriesAgain ==
  IF caller = "direct"
  THEN Raise("selenium_failed") /\ UNCHANGED caller
  ELSE IF StrLen(text_sample.v) < 50
       THEN Raise("too_little_render_failed") /\ UNCHANGED caller
       ELSE IF Cardinality({i \in 1..Len(log) : log[i] = "render"}) = 0
       THEN pc' = "selenium" /\ UNCHANGED <<caller, outcome>>
       ELSE pc' = "fetch_html" /\ caller' = "refetch" /\ UNCHANGED outcome

\* fetch_html_with_selenium raises: out of scrape_webpage_text when the
\* renderer was requested, into the handler of the fallback otherwise
SeleniumRaises ==
  IF caller = "direct"
  THEN Raise("selenium_failed") /\ UNCHANGED caller
  ELSE IF StrLen(text_sample.v) < 50
       THEN Raise("too_little_render_failed") /\ UNCHANGED caller
       ELSE pc' = "fetch_html" /\ caller' = "refetch" /\ UNCHANGED outcome

\* entry of fetch_html_with_selenium up to the creation of the driver
SeleniumStart ==
  /\ pc = "selenium"
  /\ IF ~SELENIUM_AVAILABLE
     THEN /\ Raise("selenium_not_installed")
          /\ UNCHANGED <<caller, driver, log>>
     ELSE \E started \in BOOLEAN :
            IF started
            THEN /\ log' = Append(log, "render")
                 /\ driver' = "started"
                 /\ pc' = "driver_get"
                 /\ UNCHANGED <<caller, outcome>>
            ELSE /\ log' = log \o <<"render", "render:fail">>
                 /\ SeleniumRaises
                 /\ UNCHANGED driver
  /\ UNCHANGED <<url, session_state, calls, use_selenium, SELENIUM_AVAILABLE, scraper, attempt,
                 attempts, response, html_text, text_sample, decision,
                 page_source>>

\* DriverGet without the finally clause: a failed load leaves the session
DriverGet_LeaksSession ==
  /\ pc = "driver_get"
  /\ \E loaded \in BOOLEAN :
       IF loaded
       THEN /\ log' = Append(log, "driver.get")
            /\ pc' = "wait"
            /\ UNCHANGED <<caller, driver, outcome>>
       ELSE /\ log' = log \o <<"driver.get", "render:fail">>
            /\ UNCHANGED driver
            /\ SeleniumRaises
  /\ UNCHANGED <<url, session_state, calls, use_selenium, SELENIUM_AVAILABLE, scraper, attempt,
                 attempts, response, html_text, text_sample, decision,
                 page_source>>

\* driver.get(url): the page loads, or the load fails and the session is quit
DriverGet ==
  /\ pc = "driver_get"
  /\ \E loaded \in BOOLEAN :
       IF loaded
       THEN /\ log' = Append(log, "driver.get")
            /\ pc' = "wait"
            /\ UNCHANGED <<caller, driver, outcome>>
       ELSE /\ log' = log \o <<"driver.get", "render:fail">>
            /\ driver' = "quit"
            /\ SeleniumRaises
  /\ UNCHANGED <<url, session_state, calls, use_selenium, SELENIUM_AVAILABLE, scraper, attempt,
                 attempts, response, html_text, text_sample, decision,
                 page_source>>

\* the wait for the body element: a timeout is logged and ignored
DriverWait ==
  /\ pc = "wait"
  /\ \E present \in BOOLEAN :
       log' = Append(log, IF present THEN "wait:ok" ELSE "wait:timeout")
  /\ pc' = "page_source"
  /\ UNCHANGED <<url, session_state, calls, use_selenium, SELENIUM_AVAILABLE, scraper, caller,
                 attempt, attempts, response, html_text, text_sample,
                 decision, driver, page_source, outcome>>

\* PageSource whose markup does not reach html_text
PageSource_KeepsStatic ==
  /\ pc = "page_source"
  /\ \E page \in RenderedPages : page_source' = Str(page)
  /\ log' = Append(log, "render:ok")
  /\ driver' = "quit"
  /\ pc' = "extract"
  /\ UNCHANGED <<url, session_state, calls, use_selenium, SELENIUM_AVAILABLE, scraper, caller,
                 attempt, attempts, response, html_text, text_sample,
                 decision, outcome>>

\* driver.page_source is returned, or reading it raises; the session is quit
\* either way
PageSource ==
  /\ pc = "page_source"
  /\ driver' = "quit"
  /\ \E read \in BOOLEAN :
       IF read
       THEN /\ \E page \in RenderedPages :
                 /\ page_source' = Str(page)
                 /\ html_text' = Str(page)
            /\ log' = Append(log, "render:ok")
            /\ pc' = "extract"
            /\ UNCHANGED <<caller, outcome>>
       ELSE /\ log' = Append(log, "render:fail")
            /\ SeleniumRaises
            /\ UNCHANGED <<page_source, html_text>>
  /\ UNCHANGED <<url, session_state, calls, use_selenium, SELENIUM_AVAILABLE, scraper, attempt,
                 attempts, response, text_sample, decision>>

\* the end of scrape_webpage_text: no markup is an error, else extract
Extract ==
  /\ pc = "extract"
  /\ IF html_text = None
     THEN Raise("no_content")
     ELSE outcome' = Text(extract_text(html_text.v)) /\ pc' = "done"
  /\ UNCHANGED <<url, session_state, calls, use_selenium, SELENIUM_AVAILABLE, scraper, caller,
                 attempt, attempts, log, response, html_text, text_sample,
                 decision, driver, page_source>>

Next ==
  \/ Scrape
  \/ FetchHtml
  \/ GetTimeout
  \/ GetConnectionError
  \/ GetHTTPError
  \/ GetRequestException
  \/ GetSuccess
  \/ CheckSample
  \/ SeleniumStart
  \/ DriverGet
  \/ DriverWait
  \/ PageSource
  \/ Extract

Spec == Init /\ [][Next]_vars

\* every GET, every call of the browser and every sleep returns, so a step
\* that is possible is taken
FairSpec == Spec /\ WF_vars(Next)

(***************************************************************************)
(* validate_url on its own, over every URL of at most MaxUrlLen tokens.    *)
(***************************************************************************)
MaxUrlLen == 5

AllUrls == UNION {[1..n -> UrlTokens] : n \in 0..MaxUrlLen}

InitUrl ==
  /\ url \in AllUrls
  /\ use_selenium = "None"
  /\ SELENIUM_AVAILABLE = FALSE
  /\ scraper = WebScraper
  /\ pc = "validate_url"
  /\ caller = "none"
  /\ attempt = 0
  /\ attempts = <<>>
  /\ log = <<>>
  /\ response = None
  /\ html_text = None
  /\ text_sample = None
  /\ decision = "none"
  /\ driver = "none"
  /\ page_source = None
  /\ outcome = Running
  /\ calls = <<>>
  /\ session_state = NewSession

\* a call of validate_url(url): the value it returns
ValidateUrl ==
  /\ pc = "validate_url"
  /\ outcome' = [kind |-> "returned", value |-> validate_url(url)]
  /\ pc' = "done"
  /\ UNCHANGED <<url, session_state, calls, use_selenium, SELENIUM_AVAILABLE, scraper, caller,
                 attempt, attempts, log, response, html_text, text_sample,
                 decision, driver, page_source>>

NextUrl == ValidateUrl

SpecUrl == InitUrl /\ [][NextUrl]_vars

(***************************************************************************)
(* The encoding cascade of fetch_html on its own, one stage at a time,     *)
(* over every combination of charset of the Content-Type header, answer of *)
(* the detector and body.  Here log holds the value of response.encoding   *)
(* before the cascade and after each of its stages.                        *)
(***************************************************************************)
\* response.encoding as requests derives it from the headers
HeaderEncodings == {NoneEnc, "ISO-8859-1", "utf-8", "gbk", "x-unknown"}

\* response.apparent_encoding, the answer of the detector
ApparentEncodings ==
  {NoneEnc, "ascii", "utf-8", "GB2312", "ISO-8859-1", "Windows-1252", "EUC-TW"}

\* the charset a meta element of the body declares
MetaCharsets == {NoneEnc, "utf-8", "gbk", "GB2312", "x-unknown"}

EncContents ==
  {Utf8Content(PageArticle, 40, m) : m \in MetaCharsets}
    \cup {GbkContent(PageArticle, 40, m) : m \in MetaCharsets}
    \cup { Utf8Content(PageEnglish300, 40, "gbk"),
           Utf8Content(PageCjk30, 10, NoneEnc),
           GbkContent(PageCjk30, 10, NoneEnc),
           Gb18030Content(PageArticle, 40, NoneEnc),
           EmptyContent }

InitEnc ==
  /\ url \in {<<"http", ":", "/", "/", "a">>}
  /\ use_selenium = "None"
  /\ SELENIUM_AVAILABLE = FALSE
  /\ scraper = WebScraper
  /\ pc = "apparent_encoding"
  /\ caller = "none"
  /\ attempt = 0
  /\ attempts = <<>>
  /\ response \in {Response(200, h, a, c) :
                      h \in HeaderEncodings, a \in ApparentEncodings, c \in EncContents}
  /\ log = <<response.encoding>>
  /\ html_text = None
  /\ text_sample = None
  /\ decision = "none"
  /\ driver = "none"
  /\ page_source = None
  /\ outcome = Running
  /\ calls = <<>>
  /\ session_state = NewSession

\* a stage of the cascade leaves e in response.encoding
SetEncoding(e, next) ==
  /\ response' = [response EXCEPT !.encoding = e]
  /\ log' = Append(log, e)
  /\ pc' = next
  /\ UNCHANGED <<url, session_state, calls, use_selenium, SELENIUM_AVAILABLE, scraper, caller,
                 attempt, attempts, html_text, text_sample, decision, driver,
                 page_source, outcome>>

\* stage 1: the answer of the detector, when there is one, is adopted
ApparentEncoding ==
  /\ pc = "apparent_encoding"
  /\ IF response.apparent_encoding # NoneEnc
     THEN SetEncoding(response.apparent_encoding, "html_charset")
     ELSE SetEncoding(response.encoding, "html_charset")

\* HtmlCharset running whatever the encoding chosen so far
HtmlCharset_Ungated ==
  /\ pc = "html_charset"
  /\ SetEncoding(html_charset_stage(response.content, response.encoding),
                 "try_encodings")

\* stage 2: the charset declared in the document
HtmlCharset ==
  /\ pc = "html_charset"
  /\ IF response.encoding = NoneEnc
        \/ lower(response.encoding) \in {"iso-8859-1", "latin1"}
     THEN SetEncoding(html_charset_stage(response.content, response.encoding),
                      "try_encodings")
     ELSE SetEncoding(response.encoding, "try_encodings")

\* stage 3: the candidate encodings
TryEncodings ==
  /\ pc = "try_encodings"
  /\ IF response.encoding = NoneEnc
        \/ lower(response.encoding) \in {"iso-8859-1", "latin1", "cp1252"}
     THEN SetEncoding(try_encodings(response.content, response.encoding, 1),
                      "final_encoding")
     ELSE SetEncoding(response.encoding, "final_encoding")

\* the final fallback: the answer of the detector or UTF-8
FinalEncoding ==
  /\ pc = "final_encoding"
  /\ IF response.encoding = NoneEnc
        \/ lower(response.encoding) \in {"iso-8859-1", "latin1"}
     THEN SetEncoding(IF response.apparent_encoding # NoneEnc
                      THEN response.apparent_encoding ELSE "utf-8", "text")
     ELSE SetEncoding(response.encoding, "text")

\* html_text = response.text; return html_text
ResponseText ==
  /\ pc = "text"
  /\ html_text' = Str(response_text(response.content, response.encoding))
  /\ outcome' = [kind |-> "returned", value |-> html_text']
  /\ pc' = "done"
  /\ UNCHANGED <<url, session_state, calls, use_selenium, SELENIUM_AVAILABLE, scraper, caller,
                 attempt, attempts, log, response, text_sample, decision,
                 driver, page_source>>

NextEnc ==
  \/ ApparentEncoding
  \/ HtmlCharset
  \/ TryEncodings
  \/ FinalEncoding
  \/ ResponseText

SpecEnc == InitEnc /\ [][NextEnc]_vars

(***************************************************************************)
(* extract_text and the check of its result on their own, one step at a    *)
(* time, on up to two pages; the text of the second has the length of the  *)
(* text of the first, or is the text the first call returned.  A page      *)
(* holds one text node of one or two lines, or (first page only) elements  *)
(* that the content selectors match or that are removed.                   *)
(***************************************************************************)
\* a line of c CJK characters, a ASCII letters or digits, x characters of
\* class k and p ASCII punctuation marks
Line(c, a, k, x, p) ==
  SelectSeq(<<R("C", c), R("A", a), R(k, x), R("P", p)>>, LAMBDA r : r.n > 0)

TextPage(text) == <<Node("div", {}, "", <<TextNode(text)>>)>>

OtherRuns ==
  { <<"X", 0>>, <<"X", 1>>, <<"X", 21>>, <<"X", 397>>, <<"X", 400>>,
    <<"L", 1>>, <<"W", 21>> }

OneLineTexts ==
  { <<Line(c, a, o[1], o[2], p)>> :
      c \in {0, 2, 3, 4, 5, 100}, a \in {0, 1, 8, 9, 18, 45},
      o \in OtherRuns, p \in {0, 2, 34, 60} }

TwoLineTexts ==
  { <<l1, Line(c, 0, o[1], o[2], 0)>> :
      l1 \in { <<R("C", 100)>>, <<R("C", 3), R("P", 1)>>, <<R("A", 1)>>,
               <<R("S", 1), R("A", 2), R("S", 1)>> },
      c \in {0, 2, 3, 4, 5, 100}, o \in OtherRuns }

\* texts at the thresholds of the check made after the line filter: 9 and
\* 10 CJK characters, a share of characters above U+007F around 0.3, each
\* alone and before a line of noise; and a text of 100 characters that the
\* filter returns as it is, alone and after a line of noise
SalvageTexts ==
  LET heads == { <<R("C", 9)>>, <<R("C", 10)>>,
                 <<R("C", 10), R("X", 4)>>, <<R("C", 10), R("X", 5)>>,
                 <<R("C", 10), R("F", 4)>>, <<R("C", 10), R("F", 5)>> }
      mixed == <<R("C", 10), R("X", 25), R("P", 65)>>
  IN  {<<l>> : l \in heads} \cup {<<l, <<R("X", 400)>>>> : l \in heads}
      \cup {<<mixed>>, << <<R("X", 2)>>, mixed >>}

\* the elements a content selector can match, and elements it cannot, with
\* a text of n characters of class k: 100 and 101 characters at each kind of
\* selector
SelectorElements(k) ==
  {Node("article", {}, "", <<TextNode(<<<<R(k, n)>>>>)>>) : n \in {100, 101}}
  \cup {Node("main", {}, "", <<TextNode(<<<<R(k, n)>>>>)>>) : n \in {100, 101}}
  \cup {Node("div", {c}, "", <<TextNode(<<<<R(k, n)>>>>)>>) :
          c \in {"content", "post-content", "entry-content", "sidebar"},
          n \in {100, 101}}
  \cup {Node("div", {}, i, <<TextNode(<<<<R(k, n)>>>>)>>) :
          i \in {"content", "main"}, n \in {100, 101}}
  \cup {Node("div", {"content"}, "main", <<TextNode(<<<<R(k, 101)>>>>)>>)}

\* pages of two elements side by side, and pages of one element that holds
\* a text and an article
SelectorPages ==
  {<<e1, e2>> : e1 \in SelectorElements("C"), e2 \in SelectorElements("A")}
  \cup {<<Node(t, {}, "", <<TextNode(<<<<R("C", 60)>>>>),
                            Kid("article", {}, "", <<<<R("A", n)>>>>)>>)>> :
          t \in {"main", "div"}, n \in {41, 100, 101}}

\* the text of the nodes that are removed in the pages below
Hidden == << <<R("A", 30), R("P", 10)>> >>

\* pages with a node of each removed kind inside the main content and after
\* it, and before and inside a block that is no main content; the text
\* outside these nodes is CJK only
RemovalPages ==
  LET tags == RemovedTags \cup {"#comment", "template"}
  IN  {<<Node("article", {}, "", <<TextNode(<<<<R("C", 120)>>>>),
                                   Kid(t, {}, "", Hidden)>>),
         Node(t, {}, "", <<TextNode(Hidden)>>)>> : t \in tags}
      \cup {<<Node(t, {}, "", <<TextNode(Hidden)>>),
              Node("div", {}, "", <<Kid(t, {}, "", Hidden),
                                   TextNode(<<<<R("C", 60)>>>>)>>)>> : t \in tags}
      \cup {PageArticle}

MarkupPages == SelectorPages \cup RemovalPages

TextPages ==
  {TextPage(t) : t \in OneLineTexts \cup TwoLineTexts \cup SalvageTexts}
  \cup MarkupPages

\* the state of a call of extract_text(html) at its entry, after the text
\* is taken from the markup and the counts are made
Call(html) ==
  LET text == page_text(html)
      m == metrics(text)
  IN  [html |-> html, text |-> text,
       chinese_chars |-> m.chinese_chars, alnum_chars |-> m.alnum_chars,
       weird_chars |-> m.weird_chars, total_chars |-> m.total_chars,
       branch |-> "none", filtered_lines |-> <<>>, result |-> None,
       verdict |-> "none"]

\* the calls at their entry, one for each page
TextCalls == {Call(html) : html \in TextPages}

InitText ==
  /\ url \in {<<"http", ":", "/", "/", "a">>}
  /\ use_selenium = "None"
  /\ SELENIUM_AVAILABLE = FALSE
  /\ scraper = WebScraper
  /\ pc = "extract_text"
  /\ caller = "none"
  /\ attempt = 0
  /\ attempts = <<>>
  /\ log = <<>>
  /\ response = None
  /\ html_text = None
  /\ text_sample = None
  /\ decision = "none"
  /\ driver = "none"
  /\ page_source = None
  /\ outcome = Running
  /\ calls = <<>>
  /\ session_state = NewSession

\* the call in progress becomes c
SetCall(c, next) ==
  /\ calls' = [calls EXCEPT ![Len(calls)] = c]
  /\ pc' = next
  /\ UNCHANGED <<url, session_state, use_selenium, SELENIUM_AVAILABLE, scraper, caller,
                 attempt, attempts, log, response, html_text, decision, driver,
                 page_source, outcome>>

\* extract_text is called: parse, removals, main content, text, counts
ExtractTextStart ==
  /\ pc = "extract_text"
  /\ Len(calls) < 2
  /\ \E c \in TextCalls :
       /\ calls # <<>> => \/ /\ c.total_chars = calls[1].total_chars
                             /\ c.html \notin MarkupPages
                          \/ c.html = TextPage(calls[1].result.v)
       /\ calls' = Append(calls, c)
       /\ html_text' = Str(c.html)
  /\ pc' = "metrics"
  /\ UNCHANGED <<url, session_state, use_selenium, SELENIUM_AVAILABLE, scraper, caller,
                 attempt, attempts, log, response, text_sample, decision,
                 driver, page_source, outcome>>

\* the test of the counts: into the line filter or on to the plain return
ExtractTextJudge ==
  /\ pc = "metrics"
  /\ IF needs_salvage(Last(calls).text)
     THEN SetCall([Last(calls) EXCEPT !.branch = "salvage"], "salvage")
     ELSE SetCall([Last(calls) EXCEPT !.branch = "normal"], "return_text")
  /\ UNCHANGED text_sample

\* the line filter and what is returned after it
ExtractTextSalvage ==
  /\ pc = "salvage"
  /\ SetCall([Last(calls) EXCEPT
                !.filtered_lines = filtered_lines(Last(calls).text),
                !.result = Str(salvage(Last(calls).text))], "gate")
  /\ UNCHANGED text_sample

\* return text
ExtractTextReturn ==
  /\ pc = "return_text"
  /\ SetCall([Last(calls) EXCEPT !.result = Str(Last(calls).text)], "gate")
  /\ UNCHANGED text_sample

\* the check scrape_webpage_text makes of the text extract_text returned
GateSample ==
  /\ pc = "gate"
  /\ text_sample' = Str(Strip(Last(calls).result.v))
  /\ SetCall([Last(calls) EXCEPT
                !.verdict = IF suspicious(Strip(Last(calls).result.v))
                            THEN "escalate" ELSE "accept"], "extract_text")

NextText ==
  \/ ExtractTextStart
  \/ ExtractTextJudge
  \/ ExtractTextSalvage
  \/ ExtractTextReturn
  \/ GateSample

SpecText == InitText /\ [][NextText]_vars

(***************************************************************************)
(* The page of main.py: the handlers of its buttons and of its text area,  *)
(* one script run at a time.  Here url is the content of the URL field,    *)
(* use_selenium the rendering checkbox, caller the widget that started the *)
(* run, log the messages the run surfaced, and outcome, decision and       *)
(* page_source what the call of scrape_webpage_text made in the run came   *)
(* to; the call is taken from ScrapeRuns, final states of Spec.            *)
(***************************************************************************)

\* cleaned_lines of clean_text: runs of empty lines become one empty line
RECURSIVE cleaned_lines(_, _)
cleaned_lines(lines, prev_empty) ==
  IF lines = <<>> THEN <<>>
  ELSE IF Head(lines) # <<>>
       THEN <<Head(lines)>> \o cleaned_lines(Tail(lines), FALSE)
       ELSE IF ~prev_empty
            THEN <<Head(lines)>> \o cleaned_lines(Tail(lines), TRUE)
            ELSE cleaned_lines(Tail(lines), TRUE)

\* while cleaned_lines and not cleaned_lines[-1]: cleaned_lines.pop()
RECURSIVE pop_empty(_)
pop_empty(lines) ==
  IF lines # <<>> /\ Last(lines) = <<>>
  THEN pop_empty(SubSeq(lines, 1, Len(lines) - 1))
  ELSE lines

\* TextProcessor.clean_text
clean_text(text) ==
  IF text = <<>> THEN <<>>
  ELSE pop_empty(cleaned_lines([i \in 1..Len(text) |-> StripLine(text[i])],
                               FALSE))

\* TextProcessor.format_text with preserve_formatting=True: the paragraphs
\* of the cleaned text, each stripped, joined by one empty line
format_text(text) ==
  IF text = <<>> THEN <<>> ELSE Strip(clean_text(text))

\* the processing the page applies to a text under its two options
processed_text(text, auto_clean, preserve_formatting) ==
  LET cleaned_text == IF auto_clean THEN clean_text(text) ELSE text
  IN  IF preserve_formatting THEN format_text(cleaned_text) ELSE cleaned_text

\* url_input.strip()
StripUrl(u) == Reverse(LStripUrl(Reverse(LStripUrl(u))))

\* error messages that hold the word 'Selenium'
SeleniumMessages ==
  {"selenium_not_installed", "selenium_failed", "too_little_render_failed"}

ScrapeRun(u, requested, available, d, source, result) ==
  [url |-> u, use_selenium |-> requested, SELENIUM_AVAILABLE |-> available,
   decision |-> d, page_source |-> source, outcome |-> result]

\* calls of scrape_webpage_text(url, use_selenium=checkbox) with what they
\* come to: static texts of 120, 300 and 0 characters, texts of 30 and 2000
\* characters from the renderer (requested, or reached by the check of the
\* static text), and errors
ScrapeRuns ==
  LET a == <<"http", ":", "/", "/", "a">>
      article == Text(extract_text(PageArticle))
      english == Text(extract_text(PageEnglish300))
      cjk30 == Text(extract_text(PageCjk30))
      long == Text(extract_text(PageArticle2000))
  IN  {ScrapeRun(a, "False", av, "accept", None, t) :
         av \in BOOLEAN, t \in {article, english}}
      \cup {ScrapeRun(a, "False", av, "skipped", None, Text(<<>>)) :
              av \in BOOLEAN}
      \cup {ScrapeRun(a, "False", av, "none", None, Error("timeout")) :
              av \in BOOLEAN}
      \cup {ScrapeRun(a, "False", TRUE, "escalate", Str(p), Text(extract_text(p))) :
              p \in {PageCjk30, PageArticle2000}}
      \cup {ScrapeRun(a, "False", TRUE, "escalate", None,
                      Error("too_little_render_failed")),
            ScrapeRun(a, "False", FALSE, "fail", None,
                      Error("too_little_no_selenium")),
            ScrapeRun(<<"ftp", ":", "/", "/", "a">>, "False", FALSE, "skipped",
                      None, Error("no_content")),
            ScrapeRun(<<"ftp", ":", "/", "/", "a">>, "False", TRUE, "skipped",
                      None, Error("no_content")),
            ScrapeRun(a, "True", TRUE, "none", Str(PageCjk30), cjk30),
            ScrapeRun(a, "True", TRUE, "none", Str(PageArticle2000), long),
            ScrapeRun(a, "True", TRUE, "none", None, Error("selenium_failed")),
            ScrapeRun(a, "True", FALSE, "none", None, article),
            ScrapeRun(a, "True", FALSE, "none", None, Error("timeout"))}

\* what the user can leave in the URL field
UrlInputs ==
  { <<>>, <<" ">>, <<"http", ":", "/", "/", "a">>,
    <<" ", "http", ":", "/", "/", "a">>, <<"ftp", ":", "/", "/", "a">> }

\* what the user can leave in the text area
EditedTexts ==
  { << <<R("A", 5)>> >>,
    << <<R("S", 1), R("A", 5)>>, <<>>, <<>>, <<R("A", 3), R("S", 2)>> >>,
    << <<>>, <<R("C", 250)>> >> }

InitUi ==
  /\ url = <<"http", ":", "/", "/", "a">>
  /\ use_selenium = "False"
  /\ SELENIUM_AVAILABLE \in BOOLEAN
  /\ scraper = WebScraper
  /\ pc = "ui"
  /\ caller = "none"
  /\ attempt = 0
  /\ attempts = <<>>
  /\ log = <<>>
  /\ response = None
  /\ html_text = None
  /\ text_sample = None
  /\ decision = "none"
  /\ driver = "none"
  /\ page_source = None
  /\ outcome = Running
  /\ calls = <<>>
  /\ session_state = NewSession

\* a script run that calls scrape_webpage_text not at all
NoScrape ==
  /\ decision' = "none"
  /\ page_source' = None
  /\ outcome' = Running
  /\ UNCHANGED <<SELENIUM_AVAILABLE, scraper, pc, attempt, attempts, response,
                 html_text, text_sample, driver, calls>>

\* the button "extract": the whole block of main.py under extract_button,
\* with the test of the short text that follows the try statement
UiExtract ==
  /\ pc = "ui"
  /\ caller' = "extract"
  /\ \E url_input \in UrlInputs, checkbox \in {"True", "False"},
        auto_clean \in BOOLEAN, preserve_formatting \in BOOLEAN :
       /\ url' = url_input
       /\ use_selenium' = checkbox
       /\ IF StripUrl(url_input) = <<>>
          THEN /\ log' = <<"error:url">>
               /\ NoScrape
               /\ UNCHANGED session_state
          ELSE \E run \in ScrapeRuns :
                 /\ run.url = StripUrl(url_input)
                 /\ run.use_selenium = checkbox
                 /\ run.SELENIUM_AVAILABLE = SELENIUM_AVAILABLE
                 /\ decision' = run.decision
                 /\ page_source' = run.page_source
                 /\ outcome' = run.outcome
                 /\ LET raw_text == run.outcome.text
                        s1 == [session_state EXCEPT
                                 !.current_url = StripUrl(url_input)]
                        s2 == IF run.outcome.kind = "text"
                              THEN [s1 EXCEPT
                                      !.extracted_text =
                                         processed_text(raw_text, auto_clean,
                                                        preserve_formatting),
                                      !.edited_text =
                                         processed_text(raw_text, auto_clean,
                                                        preserve_formatting)]
                              ELSE s1
                        messages ==
                          IF run.outcome.kind = "text" THEN <<"success">>
                          ELSE IF run.outcome.err \in SeleniumMessages
                               THEN <<"error", "info">>
                               ELSE <<"error">>
                        text_length == StrLen(Strip(s2.extracted_text))
                    IN  /\ session_state' = s2
                        /\ log' = IF /\ s2.extracted_text # <<>>
                                     /\ text_length < 200
                                     /\ checkbox = "False"
                                  THEN Append(messages, "warning")
                                  ELSE messages
                 /\ UNCHANGED <<SELENIUM_AVAILABLE, scraper, pc, attempt,
                                attempts, response, html_text, text_sample,
                                driver, calls>>

\* the button "clear"
UiClear ==
  /\ pc = "ui"
  /\ caller' = "clear"
  /\ session_state' = NewSession
  /\ log' = <<>>
  /\ NoScrape
  /\ UNCHANGED <<url, use_selenium>>

\* the text area, shown while extracted_text is not empty, holds a new text
UiEdit ==
  /\ pc = "ui"
  /\ session_state.extracted_text # <<>>
  /\ caller' = "edit"
  /\ \E edited_text \in EditedTexts \cup {<<>>} :
       /\ edited_text # session_state.edited_text
       /\ session_state' = [session_state EXCEPT !.edited_text = edited_text]
  /\ log' = <<>>
  /\ NoScrape
  /\ UNCHANGED <<url, use_selenium>>

\* UiReprocess that stores the processed text as the extracted text too
UiReprocess_StoresExtracted ==
  /\ pc = "ui"
  /\ session_state.extracted_text # <<>>
  /\ caller' = "reprocess"
  /\ \E auto_clean \in BOOLEAN, preserve_formatting \in BOOLEAN :
       session_state' =
         [session_state EXCEPT
            !.edited_text = processed_text(session_state.edited_text,
                                           auto_clean, preserve_formatting),
            !.extracted_text = processed_text(session_state.edited_text,
                                              auto_clean, preserve_formatting)]
  /\ log' = <<>>
  /\ NoScrape
  /\ UNCHANGED <<url, use_selenium>>

\* the button "process again"
UiReprocess ==
  /\ pc = "ui"
  /\ session_state.extracted_text # <<>>
  /\ caller' = "reprocess"
  /\ \E auto_clean \in BOOLEAN, preserve_formatting \in BOOLEAN :
       session_state' =
         [session_state EXCEPT
            !.edited_text = processed_text(session_state.edited_text,
                                           auto_clean, preserve_formatting)]
  /\ log' = <<>>
  /\ NoScrape
  /\ UNCHANGED <<url, use_selenium>>

\* the button "clear text"
UiClearText ==
  /\ pc = "ui"
  /\ session_state.extracted_text # <<>>
  /\ caller' = "clear_text"
  /\ session_state' = [session_state EXCEPT !.edited_text = <<>>]
  /\ log' = <<>>
  /\ NoScrape
  /\ UNCHANGED <<url, use_selenium>>

NextUi ==
  \/ UiExtract
  \/ UiClear
  \/ UiEdit
  \/ UiReprocess
  \/ UiClearText

SpecUi == InitUi /\ [][NextUi]_vars

(***************************************************************************)
(* Properties.                                                             *)
(***************************************************************************)
InLog(e) == \E i \in 1..Len(log) : log[i] = e

IsGet(e) == e \in {"GET:ok", "GET:timeout", "GET:connection", "GET:http", "GET:other"}

AllTransient ==
  /\ attempts # <<>>
  /\ \A i \in 1..Len(attempts) : attempts[i].kind \in {"timeout", "connection"}

\* the errors whose message tells the caller to use the rendering mode
Guidance == {"too_little_no_selenium", "too_little_render_failed"}

\* C1: when every GET of a fetch_html call ends in a timeout or a connection
\* error, the call makes exactly max_retries GETs and then raises the error
\* of the kind of the last failure; it never makes more, and while fewer
\* have been made it is still in the loop.
C1_SustainedFailure ==
  /\ Len(attempts) <= scraper.max_retries
  /\ AllTransient =>
       IF pc = "get"
       THEN Len(attempts) = attempt /\ attempt < scraper.max_retries
       ELSE /\ Len(attempts) = scraper.max_retries
            /\ pc = "done"
            /\ outcome = Error(Last(attempts).kind)

C1_Witness ==
  /\ pc = "done"
  /\ Len(attempts) = 3
  /\ AllTransient
  /\ attempts[1].kind = "timeout"
  /\ outcome = Error("connection")

\* C2 as stated: a GET answered with any status outside 200..299 is the last
\* GET and the fetch has failed with the HTTP error of that status.
C2_Original ==
  \A i \in 1..Len(attempts) :
    (attempts[i].status # 0 /\ attempts[i].status \notin 200..299)
      => /\ i = Len(attempts)
         /\ pc = "done"
         /\ outcome = Error(HttpError(attempts[i].status))

\* C2: a GET answered with a status in 400..599 is the last GET of the call
\* and the fetch has failed with the HTTP error of that status; only a
\* timeout or a connection error is followed by another GET.
C2_NoRetryOnHttpError ==
  \A i \in 1..Len(attempts) :
    /\ attempts[i].status \in 400..599
         => /\ i = Len(attempts)
            /\ attempts[i].kind = "http"
            /\ pc = "done"
            /\ outcome = Error(HttpError(attempts[i].status))
    /\ i < Len(attempts) => attempts[i].kind \in {"timeout", "connection"}

C2_Witness ==
  /\ pc = "done"
  /\ Len(attempts) = 2
  /\ attempts[1].kind = "timeout"
  /\ attempts[2] = Attempt("http", 503)
  /\ outcome = Error("http_503")

\* C3: within one invocation no GET is issued after a GET that succeeded.
C3_SingleStaticFetch ==
  \A i, j \in 1..Len(log) : (i < j /\ log[i] = "GET:ok") => ~IsGet(log[j])

\* C4: for a URL the validator rejects there is no network event at all and
\* the invocation ends with the failure for a missing page.
C4_InvalidUrlNoNetwork ==
  ~validate_url(url) =>
    /\ log = <<>>
    /\ pc = "done" => outcome = Error("no_content")

\* C5: validate_url returns (never raises), and it returns true exactly when
\* the URL parses, to a scheme http or https and a non-empty network
\* location; a URL it accepts starts, after leading spaces, with the scheme,
\* ":" and "//" followed by a token that does not end the network location.
C5_ValidateUrl ==
  pc = "done" =>
    /\ outcome.kind = "returned"
    /\ outcome.value = ( /\ ~urlparse(url).raises
                         /\ urlparse(url).scheme \in {<<"http">>, <<"https">>}
                         /\ urlparse(url).netloc # <<>> )
    /\ outcome.value =>
         LET u == LStripUrl(url)
         IN  /\ Len(u) >= 5
             /\ u[1] \in {"http", "https", "HTTP"}
             /\ <<u[2], u[3], u[4]>> = <<":", "/", "/">>
             /\ u[5] \notin {"/", "["}

C5_Witness ==
  /\ pc = "done"
  /\ outcome = [kind |-> "returned", value |-> TRUE]
  /\ url = <<"https", ":", "/", "/", "a">>

\* C6 as stated: a static result of at least 100 characters that is not the
\* warning message is accepted, the renderer is not invoked and the result
\* is that extraction.
C6_Original ==
  ( /\ ~UseSelenium
    /\ text_sample # None
    /\ StrLen(text_sample.v) >= 100
    /\ ~StartsWithWarn(text_sample.v) )
  => /\ ~InLog("render")
     /\ pc = "done" => outcome = Text(text_sample.v)

\* C6: a static result of at least 100 characters that is not the warning
\* message, that is not both shorter than 200 characters and with fewer than
\* 10 CJK characters, and that does not have more than 30% weird characters
\* together with fewer than 20 CJK characters (counted over its first 1000
\* characters) is accepted: the renderer is not invoked, no second fetch is
\* made and the result is that extraction.
C6_AcceptStatic ==
  LET t == text_sample.v
      cjk == StrCount(Prefix(t, 1000), Chinese)
      weird == StrCount(Prefix(t, 1000), Weird)
  IN  ( /\ ~UseSelenium
        /\ text_sample # None
        /\ StrLen(t) >= 100
        /\ ~StartsWithWarn(t)
        /\ ~(StrLen(t) < 200 /\ cjk < 10)
        /\ ~(10 * weird > 3 * Min(1000, StrLen(t)) /\ cjk < 20) )
      => /\ decision = "accept"
         /\ ~InLog("render")
         /\ page_source = None
         /\ Len(SelectSeq(log, IsGet)) = Len(attempts)
         /\ pc = "done" => outcome = Text(t)

C6_Witness ==
  /\ pc = "done"
  /\ SELENIUM_AVAILABLE
  /\ decision = "accept"
  /\ StrLen(text_sample.v) = 120
  /\ outcome = Text(text_sample.v)

\* C7: without a renderer and without a request for rendering, a static
\* page whose extracted text has fewer than 50 characters ends in an error
\* with the guidance to use rendering.
C7_BelowFloorFails ==
  ( /\ pc = "done"
    /\ ~SELENIUM_AVAILABLE
    /\ ~UseSelenium
    /\ html_text # None
    /\ StrLen(Strip(extract_text(html_text.v))) < 50 )
  => outcome.kind = "error" /\ outcome.err \in Guidance

\* C8: without a renderer and without a request for rendering, a static page
\* for which the extractor returns its warning message ends in an error with
\* the guidance to use rendering.
C8_InsufficientFails ==
  ( /\ pc = "done"
    /\ ~SELENIUM_AVAILABLE
    /\ ~UseSelenium
    /\ html_text # None
    /\ extract_text(html_text.v) = WARN )
  => outcome.kind = "error" /\ outcome.err \in Guidance

\* C9: when the check escalates and the renderer fails, the result is the
\* static extraction if it has at least 50 characters, the error with the
\* guidance otherwise.
C9_RenderFailure ==
  (pc = "done" /\ decision = "escalate" /\ InLog("render:fail"))
  => IF StrLen(text_sample.v) >= 50
     THEN outcome = Text(text_sample.v)
     ELSE outcome = Error("too_little_render_failed")

\* C10: when the check escalates and the renderer returns markup, the
\* result is the extraction of that markup, whatever its quality, and no
\* further GET is made.
C10_Escalated ==
  (decision = "escalate" /\ page_source # None)
  => /\ html_text = page_source
     /\ pc \in {"extract", "done"}
     /\ Last(log) = "render:ok"
     /\ pc = "done" => outcome = Text(extract_text(page_source.v))

C10_Witness ==
  /\ pc = "done"
  /\ decision = "escalate"
  /\ page_source = Str(PageJson80)
  /\ StrLen(text_sample.v) = 150
  /\ outcome = Text(WARN)

\* C11: when rendering is requested and a renderer is available, the
\* invocation goes to the renderer at once: it makes no GET, takes no sample
\* of a static result and makes no quality decision, and it ends with the
\* extraction of the rendered markup or with the failure of the renderer.
C11_ExplicitRender ==
  (UseSelenium /\ SELENIUM_AVAILABLE /\ pc # "scrape")
  => /\ caller = "direct"
     /\ \A i \in 1..Len(log) : ~IsGet(log[i])
     /\ attempts = <<>>
     /\ text_sample = None
     /\ decision = "none"
     /\ pc = "done" =>
          IF page_source # None
          THEN outcome = Text(extract_text(page_source.v))
          ELSE outcome = Error("selenium_failed") /\ Last(log) = "render:fail"

C11_Witness ==
  /\ pc = "done"
  /\ use_selenium = "True"
  /\ SELENIUM_AVAILABLE
  /\ log = <<"render", "driver.get", "wait:ok", "render:ok">>
  /\ page_source = Str(PageArticle2000)
  /\ outcome = Text(<< <<R("C", 2000)>> >>)

\* C12: when rendering is requested and no renderer is available, a result
\* that is text has at least 50 characters.
C12_ExplicitUnavailable ==
  (pc = "done" /\ UseSelenium /\ ~SELENIUM_AVAILABLE /\ outcome.kind = "text")
  => StrLen(Strip(outcome.text)) >= 50

\* C13: a browser session that was started is quit before
\* fetch_html_with_selenium is left: a started session exists only between
\* the creation of the driver and the reading of the page source, on every
\* path (page loaded, load failed, wait timed out, page source unreadable).
C13_SessionQuit ==
  /\ driver = "started" <=> pc \in {"driver_get", "wait", "page_source"}
  /\ (pc \notin {"selenium", "driver_get", "wait", "page_source"} /\ InLog("driver.get"))
       => driver = "quit"

C13_Witness ==
  /\ pc = "done"
  /\ driver = "quit"
  /\ log = <<"render", "driver.get", "render:fail">>
  /\ outcome = Error("selenium_failed")

\* C14: when fetch_html returns, response.encoding is set, it names an
\* encoding the bytes can be decoded under, and the text returned is the
\* body decoded under that encoding (the empty text for an empty body).
C14_DecodedUnderResolved ==
  pc = "done" =>
    /\ response.encoding # NoneEnc
    /\ IF response.content.empty
       THEN html_text = Str(<<>>)
       ELSE /\ codec(response.encoding) # "unknown"
            /\ html_text = Str(response.content.dec[codec(response.encoding)].doc)

\* the encodings after which some later stage of the cascade runs
Unreliable(e) == e = NoneEnc \/ lower(e) \in {"iso-8859-1", "latin1", "cp1252"}

\* C15: a stage after the first changes response.encoding only when the
\* encoding chosen so far is absent or one of iso-8859-1, latin1, cp1252;
\* so when the detector answers with an encoding outside that family, the
\* resolved encoding is the answer of the detector, whatever the header and
\* the declaration in the document say.
C15_Gating ==
  /\ \A k \in 2..(Len(log) - 1) : log[k + 1] # log[k] => Unreliable(log[k])
  /\ ( /\ Len(log) >= 2
       /\ response.apparent_encoding # NoneEnc
       /\ ~Unreliable(response.apparent_encoding) )
     => response.encoding = response.apparent_encoding

C15_Witness ==
  /\ pc = "done"
  /\ response.content = GbkContent(PageArticle, 40, "gbk")
  /\ response.apparent_encoding = "GB2312"
  /\ log = <<"ISO-8859-1", "GB2312", "GB2312", "GB2312", "GB2312">>

\* the candidate list of the probe stage, as the claim gives it
Candidates == <<"utf-8", "gbk", "gb2312", "gb18030">>

C17_RatiosInRange ==
  \A i \in 1..Len(calls) :
    calls[i].total_chars > 0 =>
      /\ 0 <= calls[i].chinese_chars + calls[i].alnum_chars
      /\ calls[i].chinese_chars + calls[i].alnum_chars <= calls[i].total_chars
      /\ 0 <= calls[i].weird_chars
      /\ calls[i].weird_chars <= calls[i].total_chars

\* C18: of two texts of the same length and the same number of lines, when
\* the first is returned as content and accepted by the check and the second
\* has more CJK or alphanumeric characters, the second is not answered with
\* the message that stands for insufficient content.
C18_Monotone ==
  \A i, j \in 1..Len(calls) :
    ( /\ calls[i].verdict = "accept"
      /\ calls[i].result # Str(WARN)
      /\ calls[j].result # None
      /\ calls[j].total_chars = calls[i].total_chars
      /\ Len(calls[j].text) = Len(calls[i].text)
      /\ calls[j].alnum_chars > calls[i].alnum_chars
      /\ calls[j].chinese_chars >= calls[i].chinese_chars )
    => calls[j].result # Str(WARN)

\* C19: extract_text enters the line filter exactly when total_chars > 0 and
\* either weird_ratio > 0.2 and valid_ratio < 0.5, or total_chars < 100 and
\* fewer than 5 CJK characters; otherwise it filters nothing and returns the
\* text as extracted.
C19_SalvageIff ==
  \A i \in 1..Len(calls) :
    LET c == calls[i]
        noisy == /\ 10 * c.weird_chars > 2 * c.total_chars
                 /\ 10 * (c.chinese_chars + c.alnum_chars) < 5 * c.total_chars
        short == c.total_chars < 100 /\ c.chinese_chars < 5
    IN  c.branch # "none" =>
          /\ c.branch = "salvage" <=> (c.total_chars > 0 /\ (noisy \/ short))
          /\ c.branch = "normal" =>
               /\ c.filtered_lines = <<>>
               /\ c.result # None => c.result = Str(c.text)

C19_Witness ==
  /\ pc = "gate"
  /\ calls[1].branch = "salvage"
  /\ calls[1].total_chars = 100
  /\ calls[1].weird_chars = 21
  /\ calls[1].alnum_chars = 45
  /\ calls[1].result = Str(WARN)

\* the rule for keeping a line, as the claim gives it
KeepRule(line) ==
  \/ LineCount(line, Chinese) >= 3
  \/ /\ 10 * (LineCount(line, Chinese) + LineCount(line, Alnum)) > 8 * LineLen(line)
     /\ 10 * LineCount(line, LineWeird) < LineLen(line)

\* the lines at the positions K, in their order
Pick(lines, K) ==
  [j \in 1..Cardinality(K) |->
     lines[CHOOSE i \in K : Cardinality({k \in K : k < i}) = j - 1]]

\* C20 as stated: the lines the filter keeps are the non-empty lines that
\* satisfy the rule, in their order.
C20_Original ==
  \A i \in 1..Len(calls) :
    (calls[i].branch = "salvage" /\ calls[i].result # None) =>
      LET lines == [n \in 1..Len(calls[i].text) |-> StripLine(calls[i].text[n])]
          K == {n \in 1..Len(lines) : lines[n] # <<>> /\ KeepRule(lines[n])}
      IN  calls[i].filtered_lines = Pick(lines, K)

\* C20: the lines the filter keeps are the lines that, stripped of
\* surrounding white space, have at least 2 characters and satisfy the rule,
\* stripped and in their order; a line of fewer than 2 characters is dropped.
C20_KeepLine ==
  \A i \in 1..Len(calls) :
    (calls[i].branch = "salvage" /\ calls[i].result # None) =>
      LET lines == [n \in 1..Len(calls[i].text) |-> StripLine(calls[i].text[n])]
          K == {n \in 1..Len(lines) : LineLen(lines[n]) >= 2 /\ KeepRule(lines[n])}
      IN  calls[i].filtered_lines = Pick(lines, K)

C20_Witness ==
  /\ pc = "gate"
  /\ calls[1].text = << <<R("A", 1)>>, <<R("C", 3), R("X", 1)>> >>
  /\ calls[1].filtered_lines = << <<R("C", 3), R("X", 1)>> >>

\* C21: after the line filter, the warning message is returned whenever the
\* filtered text has fewer than 10 CJK characters or more than 0.3 of its
\* characters weird, counted again on the filtered text (with the weird
\* characters of the first count, and so also with every non-CJK character
\* above U+007F the second count takes); a filter branch that returns page
\* text returns the filtered text, with at least 10 CJK characters and at
\* most 0.3 weird characters.
C21_SalvageRecheck ==
  \A i \in 1..Len(calls) :
    (calls[i].branch = "salvage" /\ calls[i].result # None) =>
      LET ft == calls[i].filtered_lines
          res == calls[i].result.v
          chinese == StrCount(ft, Chinese)
          total == StrLen(ft)
      IN  /\ (chinese < 10 \/ 10 * StrCount(ft, Weird) > 3 * total)
               => res = WARN
          /\ res # WARN =>
               /\ res = ft
               /\ StrCount(res, Chinese) >= 10
               /\ 10 * StrCount(res, Weird) <= 3 * StrLen(res)
               /\ 10 * StrCount(res, FilteredWeird) <= 3 * StrLen(res)

C21_Witness ==
  /\ pc = "gate"
  /\ calls[1].text = << <<R("C", 10), R("X", 4)>>, <<R("X", 400)>> >>
  /\ calls[1].branch = "salvage"
  /\ calls[1].result = Str(<< <<R("C", 10), R("X", 4)>> >>)

\* the match of the n-th content selector
Hit(e, n) ==
  CASE n = 1 -> e.tag = "article"
    [] n = 2 -> e.tag = "main"
    [] n = 3 -> "content" \in e.cls
    [] n = 4 -> "post-content" \in e.cls
    [] n = 5 -> "entry-content" \in e.cls
    [] n = 6 -> e.id = "content"
    [] n = 7 -> e.id = "main"

Hits(doc, n) == SelectSeq(Elements(doc), LAMBDA e : Hit(e, n))

Long(e) == get_text_len(Strings(e)) > 100

Smallest(K) == CHOOSE n \in K : \A m \in K : n <= m

\* C22 as stated: the text is taken from the first match, in the order of
\* the selectors, whose text has more than 100 characters, and from the
\* whole document when no match has.
C22_Original ==
  \A i \in 1..Len(calls) :
    LET doc == calls[i].html
        K == {n \in 1..7 : \E j \in 1..Len(Hits(doc, n)) : Long(Hits(doc, n)[j])}
    IN  cleaned(doc) = doc =>
          calls[i].text =
            IF K = {} THEN soup_text(doc)
            ELSE get_text(Strings(SelectSeq(Hits(doc, Smallest(K)), Long)[1]))

\* C22: each selector is tried in its order on its first match in document
\* order only; the text is taken from the first of these matches that has
\* more than 100 characters (100 is not enough), and from the whole document
\* when none has, also when a later match of some selector is longer.
C22_MainContent ==
  \A i \in 1..Len(calls) :
    LET doc == calls[i].html
        K == {n \in 1..7 : Hits(doc, n) # <<>> /\ Long(Hits(doc, n)[1])}
    IN  cleaned(doc) = doc =>
          calls[i].text =
            IF K = {} THEN soup_text(doc)
            ELSE get_text(Strings(Hits(doc, Smallest(K))[1]))

C22_Witness ==
  /\ pc = "metrics"
  /\ calls[1].html = <<Node("article", {}, "", <<TextNode(<<<<R("C", 100)>>>>)>>),
                       Node("article", {}, "", <<TextNode(<<<<R("A", 101)>>>>)>>)>>
  /\ calls[1].text = << <<R("C", 100)>>, <<R("A", 101)>> >>

\* C23: the text of a script, style, meta, link, noscript, iframe, embed,
\* svg, canvas, head or template element or of a comment is in no text that
\* extract_text takes from the page or returns, inside the main content or
\* outside it; for an article of more than 100 characters followed by a
\* script the result is the text of the article, and it is accepted.
C23_RemovedText ==
  \A i \in 1..Len(calls) :
    /\ calls[i].html \in RemovalPages =>
         /\ StrCount(calls[i].text, {"A", "P"}) = 0
         /\ calls[i].result # None =>
              \/ calls[i].result.v = WARN
              \/ StrCount(calls[i].result.v, {"A", "P"}) = 0
    /\ calls[i].html = PageArticle =>
         /\ calls[i].text = get_text(Strings(PageArticle[1]))
         /\ calls[i].result # None => calls[i].result.v = calls[i].text
         /\ calls[i].verdict \in {"none", "accept"}

C23_Witness ==
  /\ pc = "extract_text"
  /\ Len(calls) = 1
  /\ calls[1].html =
       <<Node("article", {}, "", <<TextNode(<<<<R("C", 120)>>>>),
                                  Kid("iframe", {}, "", Hidden)>>),
         Node("iframe", {}, "", <<TextNode(Hidden)>>)>>
  /\ calls[1].result = Str(<< <<R("C", 120)>> >>)
  /\ calls[1].verdict = "accept"

\* C24: no step of an invocation changes a field of the scraper (headers,
\* timeout, max_retries, use_selenium) or the module-level flag
\* SELENIUM_AVAILABLE, so that a later invocation starts from the fields the
\* constructor set.
C24_Stateless ==
  [][scraper' = scraper /\ SELENIUM_AVAILABLE' = SELENIUM_AVAILABLE]_vars

C24_Witness ==
  /\ pc = "done"
  /\ outcome.kind = "text"
  /\ decision = "escalate"
  /\ use_selenium = "None"
  /\ scraper = WebScraper

\* C25: after a run of the extract button the warning about a short text
\* is surfaced only when the run returned a text of fewer than 200
\* characters without the renderer (not requested, not reached by the
\* check of the static text); a run that returned a text stores it whatever
\* is surfaced, and a run that failed surfaces no such warning.
C25_SoftWarning ==
  caller = "extract" =>
    /\ "warning" \in {log[i] : i \in 1..Len(log)} =>
         /\ outcome.kind = "text"
         /\ StrLen(session_state.extracted_text) < 200
         /\ use_selenium = "False"
         /\ page_source = None
    /\ outcome.kind = "text" => "success" \in {log[i] : i \in 1..Len(log)}
    /\ outcome.kind = "error" => "warning" \notin {log[i] : i \in 1..Len(log)}

\* C26: when a text that extract_text returned and the check accepted is
\* put alone into a container and extracted again, the second call returns
\* the same text.
C26_Idempotent ==
  \A i, j \in 1..Len(calls) :
    (/\ i < j
     /\ calls[i].verdict = "accept"
     /\ calls[j].html = TextPage(calls[i].result.v)
     /\ calls[j].result # None)
    => calls[j].result = calls[i].result

C26_Witness ==
  /\ pc = "extract_text"
  /\ Len(calls) = 2
  /\ calls[1].branch = "salvage"
  /\ calls[1].verdict = "accept"
  /\ calls[1].text # calls[1].result.v
  /\ calls[2].html = TextPage(calls[1].result.v)
  /\ calls[2].branch = "salvage"
  /\ calls[2].verdict = "accept"
  /\ calls[2].result = calls[1].result

\* C27: a fetch that ends on an HTTP error status raises the access-denied
\* message for 403, the not-found message for 404, the server-error message
\* for 500 and, for every other status, the generic message that holds the
\* status code; the four kinds of message differ.
C27_StatusMessage ==
  (pc = "done" /\ attempts # <<>> /\ Last(attempts).kind = "http") =>
    LET status_code == Last(attempts).status
        generic == "http_" \o ToString(status_code)
    IN  /\ outcome.kind = "error"
        /\ status_code = 403 => outcome.err = "http_403_denied"
        /\ status_code = 404 => outcome.err = "http_404_not_found"
        /\ status_code = 500 => outcome.err = "http_500_server"
        /\ status_code \notin {403, 404, 500} => outcome.err = generic
        /\ generic \notin {"http_403_denied", "http_404_not_found",
                           "http_500_server"}

C27_Witness ==
  /\ pc = "done"
  /\ attempts = <<Attempt("http", 503)>>
  /\ outcome = Error("http_503")

\* C28: the stage of the charset declared in the document changes the
\* encoding only to the declared charset, lower-cased, and only when the
\* whole body decodes strictly under it; when it does not decode (unknown
\* name or undecodable bytes) the encoding stays as it was, the later stages
\* run and the fetch returns a text.
C28_DeclaredCharset ==
  LET declared == response.content.meta
      valid == declared # NoneEnc /\ decodes(response.content, lower(declared))
  IN  /\ Len(log) >= 3 =>
           /\ log[3] # log[2] => valid /\ log[3] = lower(declared)
           /\ ~valid => log[3] = log[2]
      /\ pc = "done" => Len(log) = 5 /\ outcome.kind = "returned"

C28_Witness ==
  /\ pc = "done"
  /\ response.content = Utf8Content(PageArticle, 40, "gbk")
  /\ log[2] = NoneEnc
  /\ log[3] = NoneEnc
  /\ log[4] = "utf-8"
  /\ outcome.kind = "returned"

\* the first position of the fetch_html call that position i of the log
\* belongs to: calls are separated by the events of the renderer
Seg(i) ==
  LET before == {j \in 1..i : ~IsGet(log[j]) /\ log[j] # "sleep(2)"}
  IN  IF before = {} THEN 1
      ELSE 1 + CHOOSE j \in before : \A k \in before : k <= j

GetsIn(a, b) == Cardinality({k \in a..b : IsGet(log[k])})

\* C29: within a call of fetch_html a backoff of 2 seconds is taken only
\* right after a GET that timed out or could not connect and was not the
\* last attempt allowed; every such GET is followed by one backoff and then
\* by the next GET, and every GET but the first of its call comes right
\* after a backoff; a call in which every attempt fails this way ends with
\* max_retries - 1 backoffs.
C29_Backoff ==
  /\ \A i \in 1..Len(log) :
       /\ log[i] = "sleep(2)" =>
            /\ i > 1
            /\ log[i - 1] \in {"GET:timeout", "GET:connection"}
            /\ GetsIn(Seg(i), i) < scraper.max_retries
            /\ i < Len(log) => IsGet(log[i + 1])
       /\ (IsGet(log[i]) /\ i > Seg(i)) => log[i - 1] = "sleep(2)"
       /\ (/\ log[i] \in {"GET:timeout", "GET:connection"}
           /\ GetsIn(Seg(i), i) < scraper.max_retries)
          => i < Len(log) /\ log[i + 1] = "sleep(2)"
  /\ (pc = "done" /\ AllTransient /\ Len(attempts) = scraper.max_retries) =>
       Cardinality({i \in Seg(Len(log))..Len(log) : log[i] = "sleep(2)"})
         = scraper.max_retries - 1

C29_Witness ==
  /\ pc = "check"
  /\ log = <<"GET:connection", "sleep(2)", "GET:timeout", "sleep(2)", "GET:ok">>

\* C30: when every GET and every call of the renderer returns or times out,
\* an invocation ends, with a returned text or a raised error and never
\* both or neither; until then it has no result; it starts the renderer at
\* most once and issues at most max_retries GETs in each of at most two
\* calls of fetch_html.
C30_Terminates ==
  /\ <>(pc = "done")
  /\ [](pc = "done" <=> outcome.kind \in {"text", "error"})
  /\ [](pc # "done" <=> outcome = Running)
  /\ [](Cardinality({i \in 1..Len(log) : log[i] = "render"}) <= 1)
  /\ [](GetsIn(1, Len(log)) <= 2 * scraper.max_retries)

C30_Witness ==
  /\ pc = "done"
  /\ decision = "escalate"
  /\ caller = "refetch"
  /\ InLog("render:fail")
  /\ GetsIn(1, Len(log)) = 2 * scraper.max_retries
  /\ outcome = Error("timeout")

====
